---- MODULE Spec2Model ----
(***************************************************************************)
(* torchlm/transfroms/transforms.py: the landmark transforms and the       *)
(* LandmarksCompose pipeline, as a state machine.                          *)
(*                                                                         *)
(* Numbers are exact rationals <<n, d>> (d > 0, lowest terms), so that     *)
(* scale factors such as 1/2 and normalised pixels such as (v-127.5)/128   *)
(* are computed as the code computes them, up to float rounding.           *)
(* An image is [dtype, h, w, px]: px is the sequence of the h pixel rows,   *)
(* each of w values (one channel).  A point set is [dtype, xy]: xy is the  *)
(* ordered sequence of points <<x, y>>.                                    *)
(***************************************************************************)
EXTENDS Integers, Sequences, FiniteSets, TLC

VARIABLES
    transforms,  \* LandmarksCompose.transforms: the children, each with its affine record
    flags,       \* LandmarksCompose.flags
    op,          \* the operation that ran last
    arg,         \* the (image, points) pair handed to the last operation
    ret,         \* the (image, points) pair the last operation returned
    trace,       \* the child invocations of the last operation, in order
    applied,     \* the child invocations of the latest __call__
    cleared,     \* clear_affine() ran and no __call__ has run since
    callers      \* for the callers that share one pipeline: who ran __call__ last,
                 \* the flags each caller's latest __call__ wrote, and whether no
                 \* other caller has operated since

vars == <<transforms, flags, op, arg, ret, trace, applied, cleared, callers>>

\* ------------------------------------------------------------------ bounds

\* The longest pipeline handed to LandmarksCompose.
MaxChildren == 2

\* The callers that share one LandmarksCompose.
MaxCallers == 2

\* ------------------------------------------------------------- rationals

Abs(a) == IF a < 0 THEN -a ELSE a

RECURSIVE GCD(_, _)
GCD(a, b) == IF b = 0 THEN a ELSE GCD(b, a % b)

Rat(n, d) ==
    LET g == GCD(Abs(n), Abs(d))
        s == IF d < 0 THEN -1 ELSE 1
    IN  <<(s * n) \div g, (s * d) \div g>>

Int2R(n) == <<n, 1>>
Half == <<1, 2>>
RAdd(a, b) == Rat(a[1] * b[2] + b[1] * a[2], a[2] * b[2])
RSub(a, b) == Rat(a[1] * b[2] - b[1] * a[2], a[2] * b[2])
RMul(a, b) == Rat(a[1] * b[1], a[2] * b[2])
RDiv(a, b) == Rat(a[1] * b[2], a[2] * b[1])
RGt(a, b) == a[1] * b[2] > b[1] * a[2]
RMin(a, b) == IF RGt(a, b) THEN b ELSE a
RMax(a, b) == IF RGt(a, b) THEN a ELSE b
\* floor(a), as the float operator // yields it
RFloor(a) == a[1] \div a[2]
\* int(x) of Python and the C float-to-integer cast: truncation toward zero.
RTrunc(a) == IF a[1] >= 0 THEN a[1] \div a[2] ELSE -((-a[1]) \div a[2])

\* cvRound: round to nearest, ties to even.
RRound(a) ==
    LET twice == (2 * a[1]) \div a[2]     \* floor(2a)
        exact == (2 * a[1]) % a[2] = 0
        fl == a[1] \div a[2]               \* floor(a)
    IN  IF exact /\ twice % 2 = 1
        THEN (IF fl % 2 = 0 THEN fl ELSE fl + 1)
        ELSE (twice + 1) \div 2

Reverse(s) == [i \in 1..Len(s) |-> s[Len(s) + 1 - i]]

\* ---------------------------------------------------------- numpy buffers

\* img.astype(np.uint8): each value truncated toward zero, kept modulo 2^8.
AsUint8(img) ==
    [img EXCEPT !.dtype = "uint8",
                !.px = [r \in 1..Len(img.px) |->
                          [j \in 1..Len(img.px[r]) |->
                             Int2R(RTrunc(img.px[r][j]) % 256)]]]

\* landmarks.astype(np.float32): the values of the model are exact in float32.
AsFloat32(pts) == [pts EXCEPT !.dtype = "float32"]

\* cv2.resize(img, None, fx=fx, fy=fy): dsize = (cvRound(fx*w), cvRound(fy*h));
\* each output pixel samples the source pixel it falls on.
Cv2Resize(img, fx, fy) ==
    LET nw == RRound(RMul(fx, Int2R(img.w)))
        nh == RRound(RMul(fy, Int2R(img.h)))
    IN  [dtype |-> img.dtype, h |-> nh, w |-> nw,
         px |-> [r \in 1..nh |->
                   [j \in 1..nw |->
                      img.px[((r - 1) * img.h) \div nh + 1][((j - 1) * img.w) \div nw + 1]]]]

\* cv2.resize(img, (w, h)): each output pixel samples the source pixel it
\* falls on.
Cv2ResizeTo(img, nw, nh) ==
    [dtype |-> img.dtype, h |-> nh, w |-> nw,
     px |-> [r \in 1..nh |->
               [j \in 1..nw |->
                  img.px[((r - 1) * img.h) \div nh + 1][((j - 1) * img.w) \div nw + 1]]]]

\* a[lo:hi] of numpy on an axis of n entries, lo >= 0: the 1-based indices kept.
NpSlice(lo, hi, n) ==
    LET stop == IF hi < 0 THEN (IF hi + n < 0 THEN 0 ELSE hi + n)
                ELSE (IF hi > n THEN n ELSE hi)
    IN  IF stop > lo THEN [k \in 1..(stop - lo) |-> lo + k] ELSE <<>>

\* img[top:bottom, left:right, :].copy()
Crop(img, top, bottom, left, right) ==
    LET rows == NpSlice(top, bottom, img.h)
        cols == NpSlice(left, right, img.w)
    IN  [dtype |-> img.dtype, h |-> Len(rows), w |-> Len(cols),
         px |-> [r \in 1..Len(rows) |->
                   [j \in 1..Len(cols) |-> img.px[rows[r]][cols[j]]]]]

\* ----------------------------------------------- functional.py (not in src)

\* F.landmarks_tool.project_to_bboxes: the enclosing box
\* <<min_x, min_y, max_x, max_y>> of the points.
ProjectToBboxes(xy) ==
    LET xs == { xy[i][1] : i \in 1..Len(xy) }
        ys == { xy[i][2] : i \in 1..Len(xy) }
        Least(S) == CHOOSE v \in S : \A o \in S : ~RGt(v, o)
        Most(S) == CHOOSE v \in S : \A o \in S : ~RGt(o, v)
    IN  <<Least(xs), Least(ys), Most(xs), Most(ys)>>

\* F.landmarks_tool.reproject_to_landmarks: the box is clipped to the canvas
\* [0, img_w] x [0, img_h] and point k is rebuilt on its corners, taken in the
\* order top-left, top-right, bottom-left, bottom-right; n points are rebuilt,
\* or one fewer when the reprojection loses a point (miss).
ReprojectToLandmarks(box, img_w, img_h, n, miss) ==
    LET cx(v) == RMax(Int2R(0), RMin(v, Int2R(img_w)))
        cy(v) == RMax(Int2R(0), RMin(v, Int2R(img_h)))
        corners == << <<cx(box[1]), cy(box[2])>>, <<cx(box[3]), cy(box[2])>>,
                      <<cx(box[1]), cy(box[4])>>, <<cx(box[3]), cy(box[4])>> >>
        count == IF miss /\ n > 0 THEN n - 1 ELSE n
    IN  [k \in 1..count |-> corners[((k - 1) % 4) + 1]]

\* F.letterbox_image_v2(img, size): the image stretched to size = (w, h).
LetterboxImageV2(img, size) == Cv2ResizeTo(img, size[1], size[2])

\* The grey level F.letterbox_image pads with.
PadValue == Int2R(128)

\* F.letterbox_image(img, size): the image resized by the one ratio that fits
\* it into size = (w, h), centred on a padded canvas of that size.
LetterboxImage(img, size) ==
    LET scale == RMin(Rat(size[1], img.w), Rat(size[2], img.h))
        new_w == RTrunc(RMul(Int2R(img.w), scale))
        new_h == RTrunc(RMul(Int2R(img.h), scale))
        x0 == (size[1] - new_w) \div 2
        y0 == (size[2] - new_h) \div 2
        inner == Cv2ResizeTo(img, new_w, new_h)
    IN  [dtype |-> img.dtype, h |-> size[2], w |-> size[1],
         px |-> [r \in 1..size[2] |->
                   [j \in 1..size[1] |->
                      IF r > y0 /\ r <= y0 + new_h /\ j > x0 /\ j <= x0 + new_w
                      THEN inner.px[r - y0][j - x0]
                      ELSE PadValue]]]

\* ------------------------------------------------- LandmarksTransform base

IsIdentity(t) ==
    /\ t.rotate = Int2R(0)
    /\ t.scale_x = Int2R(1) /\ t.scale_y = Int2R(1)
    /\ t.trans_x = Int2R(0) /\ t.trans_y = Int2R(0)
    /\ t.flag = FALSE

\* LandmarksTransform.__init__ (through the subclass constructor, which keeps
\* its configuration: kind, _prob, _diff).
TransformInit(kind, prob, diff) ==
    [kind |-> kind, prob |-> prob, diff |-> diff,
     rotate |-> Int2R(0), scale_x |-> Int2R(1), scale_y |-> Int2R(1),
     trans_x |-> Int2R(0), trans_y |-> Int2R(0), flag |-> FALSE]

\* LandmarksTransform.clear_affine
TransformClearAffine(t) ==
    [t EXCEPT !.rotate = Int2R(0), !.scale_x = Int2R(1), !.scale_y = Int2R(1),
              !.trans_x = Int2R(0), !.trans_y = Int2R(0), !.flag = FALSE]

\* apply_affine_to with the two steps swapped: scale first, then translate.
TransformApplyAffineTo_ScaleFirst(t, pts, scale, translate, rotate) ==
    LET p1 == IF scale
              THEN [i \in 1..Len(pts.xy) |->
                      <<RMul(pts.xy[i][1], t.scale_x), RMul(pts.xy[i][2], t.scale_y)>>]
              ELSE pts.xy
        p2 == IF translate
              THEN [i \in 1..Len(p1) |->
                      <<RSub(p1[i][1], t.trans_x), RSub(p1[i][2], t.trans_y)>>]
              ELSE p1
    IN  [pts EXCEPT !.xy = p2]

\* LandmarksTransform.apply_affine_to
TransformApplyAffineTo(t, pts, scale, translate, rotate) ==
    LET p1 == IF translate
              THEN [i \in 1..Len(pts.xy) |->
                      <<RSub(pts.xy[i][1], t.trans_x), RSub(pts.xy[i][2], t.trans_y)>>]
              ELSE pts.xy
        p2 == IF scale
              THEN [i \in 1..Len(p1) |->
                      <<RMul(p1[i][1], t.scale_x), RMul(p1[i][2], t.scale_y)>>]
              ELSE p1
    IN  [pts EXCEPT !.xy = p2]

\* What a constructor call ends in: the instance, or the exception it raised.
Constructed(t) == [ok |-> TRUE, t |-> t, error |-> "None"]
Rejected(error) == [ok |-> FALSE, t |-> <<>>, error |-> error]

\* np.random.uniform(0., 1.) > self._prob
GateFails(t, u) == RGt(u, t.prob)

\* The result of one child invocation: raised (error names the exception), or
\* the child as it is left and the pair it returns; fired tells whether the
\* transform was performed.
Raised(t, img, pts, error) ==
    [raised |-> TRUE, fired |-> FALSE, t |-> t, img |-> img, pts |-> pts,
     error |-> error]
Returned(t, img, pts, fired) ==
    [raised |-> FALSE, fired |-> fired, t |-> t, img |-> img, pts |-> pts,
     error |-> "None"]

\* The early return without its self.clear_affine().
GateSkip_NoClear(t, img, pts) ==
    Returned(t, AsUint8(img), AsFloat32(pts), FALSE)

\* The probability gate's early return of every random transform.
GateSkip(t, img, pts) ==
    Returned(TransformClearAffine(t), AsUint8(img), AsFloat32(pts), FALSE)

\* ------------------------------------------------------ concrete transforms

NormMean == <<255, 2>>
NormStd == <<128, 1>>

\* LandmarksNormalize.__call__
NormalizeCall(t, img, pts) ==
    LET new_img == [img EXCEPT !.dtype = "float32",
                       !.px = [r \in 1..Len(img.px) |->
                                 [j \in 1..Len(img.px[r]) |->
                                    RDiv(RSub(img.px[r][j], NormMean), NormStd)]]]
    IN  Returned([t EXCEPT !.flag = TRUE], new_img, AsFloat32(pts), TRUE)

\* The flip that moves each x by (cx - x) once, not twice.
FlipBody_NoDouble(t, img, pts) ==
    LET cx == Rat(img.w, 2)
        new_img == [img EXCEPT !.px = [r \in 1..Len(img.px) |-> Reverse(img.px[r])]]
        new_xy == [i \in 1..Len(pts.xy) |->
                     <<RAdd(pts.xy[i][1], RSub(cx, pts.xy[i][1])), pts.xy[i][2]>>]
    IN  Returned([t EXCEPT !.flag = TRUE], AsUint8(new_img),
                 AsFloat32([pts EXCEPT !.xy = new_xy]), TRUE)

\* The flip about the centre of the pixel columns, cx = (w - 1) / 2.
FlipBody_PixelCentre(t, img, pts) ==
    LET cx == Rat(img.w - 1, 2)
        new_img == [img EXCEPT !.px = [r \in 1..Len(img.px) |-> Reverse(img.px[r])]]
        new_xy == [i \in 1..Len(pts.xy) |->
                     <<RAdd(pts.xy[i][1], RMul(Int2R(2), RSub(cx, pts.xy[i][1]))),
                       pts.xy[i][2]>>]
    IN  Returned([t EXCEPT !.flag = TRUE], AsUint8(new_img),
                 AsFloat32([pts EXCEPT !.xy = new_xy]), TRUE)

\* The flip shared by LandmarksHorizontalFlip and LandmarksRandomHorizontalFlip.
FlipBody(t, img, pts) ==
    LET cx == Rat(img.w, 2)
        new_img == [img EXCEPT !.px = [r \in 1..Len(img.px) |-> Reverse(img.px[r])]]
        new_xy == [i \in 1..Len(pts.xy) |->
                     <<RAdd(pts.xy[i][1], RMul(Int2R(2), RSub(cx, pts.xy[i][1]))),
                       pts.xy[i][2]>>]
    IN  Returned([t EXCEPT !.flag = TRUE], AsUint8(new_img),
                 AsFloat32([pts EXCEPT !.xy = new_xy]), TRUE)

\* LandmarksHorizontalFlip.__call__
HorizontalFlipCall(t, img, pts) == FlipBody(t, img, pts)

\* LandmarksRandomHorizontalFlip.__call__
RandomHorizontalFlipCall(t, img, pts, d) ==
    IF GateFails(t, d.u) THEN GateSkip(t, img, pts) ELSE FlipBody(t, img, pts)

\* A Python value handed as a range: type is "tuple", "float" or "int" and v
\* holds its numbers.
PyTuple(a, b) == [type |-> "tuple", v |-> <<a, b>>]
PyFloat(a) == [type |-> "float", v |-> <<a>>]
PyInt(n) == [type |-> "int", v |-> <<Int2R(n)>>]

\* LandmarksRandomScale.__init__: a tuple is checked, a float becomes the range
\* (max(-1, -scale), scale), and any other value is stored as it is.
RandomScaleInit(scale, prob, diff) ==
    LET t == TransformInit("LandmarksRandomScale", prob, diff)
        minus1 == Int2R(-1)
        neg == RSub(Int2R(0), scale.v[1])
    IN  CASE scale.type = "tuple" ->
               IF Len(scale.v) = 2 /\ RGt(scale.v[1], minus1) /\ RGt(scale.v[2], minus1)
               THEN Constructed(t @@ [scale |-> scale])
               ELSE Rejected("AssertionError")
          [] scale.type = "float" ->
               IF RGt(scale.v[1], Int2R(0))
               THEN Constructed(t @@ [scale |->
                      PyTuple(IF RGt(minus1, neg) THEN minus1 ELSE neg, scale.v[1])])
               ELSE Rejected("AssertionError")
          [] OTHER -> Constructed(t @@ [scale |-> scale])

\* LandmarksRandomScale.__call__; d.sx and d.sy are the draws of
\* random.uniform(*self._scale), which unpacks self._scale.
RandomScaleCall(t, img, pts, d) ==
    IF GateFails(t, d.u) THEN GateSkip(t, img, pts)
    ELSE IF t.scale.type # "tuple" THEN Raised(t, img, pts, "TypeError")
    ELSE
      LET scale_x == d.sx
          scale_y == IF t.diff THEN d.sy ELSE scale_x
          rx == RAdd(Int2R(1), scale_x)
          ry == RAdd(Int2R(1), scale_y)
          new_img == Cv2Resize(img, rx, ry)
          new_xy == [i \in 1..Len(pts.xy) |->
                       <<RMul(pts.xy[i][1], rx), RMul(pts.xy[i][2], ry)>>]
      IN  IF new_img.w = 0 \/ new_img.h = 0
          THEN Raised(t, img, pts, "cv2.error")       \* empty dsize
          ELSE Returned([t EXCEPT !.scale_x = rx, !.scale_y = ry, !.flag = TRUE],
                        AsUint8(new_img), AsFloat32([pts EXCEPT !.xy = new_xy]), TRUE)

PyNone == [type |-> "None", v |-> <<>>]

\* LandmarksResize.__init__: an int becomes (size, size), a tuple is kept, any
\* other value is a ValueError.  The sizes of the model hold integers.
ResizeInit(size, keep_aspect) ==
    LET t == TransformInit("LandmarksResize", Int2R(1), FALSE)
    IN  CASE size.type = "tuple" ->
               Constructed(t @@ [size |-> [i \in 1..Len(size.v) |-> RTrunc(size.v[i])],
                                 keep_aspect |-> keep_aspect])
          [] size.type = "int" ->
               Constructed(t @@ [size |-> <<RTrunc(size.v[1]), RTrunc(size.v[1])>>,
                                 keep_aspect |-> keep_aspect])
          [] OTHER -> Rejected("ValueError")

\* The box arithmetic with each target side divided by the other image side.
ResizeBox_SidesSwapped(t, img, box) ==
    LET scale_y == Rat(t.size[2], img.w)
        scale_x == Rat(t.size[1], img.h)
    IN  [box |-> <<RMul(box[1], scale_x), RMul(box[2], scale_y),
                   RMul(box[3], scale_x), RMul(box[4], scale_y)>>,
         scale_x |-> scale_x, scale_y |-> scale_y]

\* The box arithmetic of LandmarksResize.__call__: the enclosing box of the
\* points in the resized image, and the scales recorded.
ResizeBox(t, img, box) ==
    IF t.keep_aspect
    THEN LET scale == RMin(Rat(t.size[2], img.h), Rat(t.size[1], img.w))
             new_w == RMul(scale, Int2R(img.w))
             new_h == RMul(scale, Int2R(img.h))
             del_h == Int2R(RFloor(RDiv(RSub(Int2R(t.size[2]), new_h), Int2R(2))))
             del_w == Int2R(RFloor(RDiv(RSub(Int2R(t.size[1]), new_w), Int2R(2))))
         IN  [box |-> <<RAdd(RMul(box[1], scale), del_w), RAdd(RMul(box[2], scale), del_h),
                        RAdd(RMul(box[3], scale), del_w), RAdd(RMul(box[4], scale), del_h)>>,
              scale_x |-> scale, scale_y |-> scale]
    ELSE LET scale_y == Rat(t.size[2], img.h)
             scale_x == Rat(t.size[1], img.w)
         IN  [box |-> <<RMul(box[1], scale_x), RMul(box[2], scale_y),
                        RMul(box[3], scale_x), RMul(box[4], scale_y)>>,
              scale_x |-> scale_x, scale_y |-> scale_y]

\* LandmarksResize.__call__ from the reprojection on; d.miss tells whether the
\* reprojection loses a point.  An empty image cannot be resized.
ResizeLandmarks(t, img, pts, d, new_img, b) ==
    LET num_landmarks == Len(pts.xy)
        new_xy == ReprojectToLandmarks(b.box, new_img.w, new_img.h,
                                       num_landmarks, d.miss)
        t1 == [t EXCEPT !.scale_x = b.scale_x, !.scale_y = b.scale_y]
    IN  IF Len(new_xy) # num_landmarks
        THEN Raised(t1, img, pts, "LandmarkMissError")
        ELSE Returned([t1 EXCEPT !.flag = TRUE], AsUint8(new_img),
                      AsFloat32([pts EXCEPT !.xy = new_xy]), TRUE)

\* The head of LandmarksResize.__call__: the resized image new_img and the box
\* record b, handed to ResizeLandmarks.
ResizeCall(t, img, pts, d) ==
    IF img.w = 0 \/ img.h = 0 THEN Raised(t, img, pts, "cv2.error")
    ELSE ResizeLandmarks(t, img, pts, d,
                         IF t.keep_aspect
                         THEN LetterboxImage(AsUint8(img), t.size)
                         ELSE LetterboxImageV2(AsUint8(img), t.size),
                         ResizeBox(t, img, ProjectToBboxes(pts.xy)))

\* LandmarksClip.__init__: with a target size (an int or a pair) the inner
\* LandmarksResize is built.
ClipInit(width_pad, height_pad, target_size) ==
    LET t == TransformInit("LandmarksClip", Int2R(1), FALSE)
                @@ [width_pad |-> width_pad, height_pad |-> height_pad]
        size == IF target_size.type = "int"
                THEN PyTuple(target_size.v[1], target_size.v[1]) ELSE target_size
        inner == ResizeInit(size, FALSE)
    IN  CASE target_size.type = "None" ->
               Constructed(t @@ [has_resize_op |-> FALSE, resize_op |-> <<>>])
          [] target_size.type \in {"int", "tuple"} ->
               IF Len(size.v) # 2 THEN Rejected("AssertionError")
               ELSE Constructed(t @@ [has_resize_op |-> TRUE, resize_op |-> inner.t])
          [] OTHER -> Rejected("ValueError")

\* The unpacking of what the inner resize returned into three names: the
\* exception of the inner call, or the ValueError of the unpacking.
ClipUnpack(t, img, pts, inner) ==
    Raised([t EXCEPT !.resize_op = inner.t], img, pts,
           IF inner.raised THEN inner.error ELSE "ValueError")

\* The crop of LandmarksClip.__call__ around the enclosing box of the points.
ClipCrop(t, img, pts, box) ==
    LET x_min == box[1]
        y_min == box[2]
        x_max == box[3]
        y_max == box[4]
        lh == RSub(y_max, y_min)
        lw == RSub(x_max, x_min)
        wpad == RTrunc(RMul(lw, t.width_pad))
        hpad == RTrunc(RMul(lh, t.height_pad))
        left == IF RTrunc(x_min) - wpad > 0 THEN RTrunc(x_min) - wpad ELSE 0
        right == IF RTrunc(x_max) + wpad < img.w THEN RTrunc(x_max) + wpad ELSE img.w
        top == IF RTrunc(y_min) - hpad > 0 THEN RTrunc(y_min) - hpad ELSE 0
        bottom == IF RTrunc(y_max) + hpad < img.h THEN RTrunc(y_max) + hpad ELSE img.h
    IN  [left |-> left, right |-> right, top |-> top, bottom |-> bottom]

\* LandmarksClip.__call__ once the crop c is known.
ClipTo(t, img, pts, d, c) ==
    LET new_img == Crop(img, c.top, c.bottom, c.left, c.right)
        new_pts == [pts EXCEPT !.xy = [i \in 1..Len(pts.xy) |->
                      <<RSub(pts.xy[i][1], Int2R(c.left)),
                        RSub(pts.xy[i][2], Int2R(c.top))>>]]
    IN  IF t.has_resize_op
        THEN ClipUnpack(t, img, pts, ResizeCall(t.resize_op, new_img, new_pts, d))
        ELSE Returned([t EXCEPT !.flag = TRUE], AsUint8(new_img), AsFloat32(new_pts), TRUE)

\* LandmarksClip.__call__.  With an inner resize, the pair it returns is
\* unpacked into three names, which is a ValueError.
ClipCall(t, img, pts, d) ==
    ClipTo(t, img, pts, d, ClipCrop(t, img, pts, ProjectToBboxes(pts.xy)))

\* The asset cv2.imread returns: none when the file does not load, or an image
\* of h x w pixels, all of the value v.
NoAsset == [loaded |-> FALSE, h |-> 0, w |-> 0, v |-> Int2R(0)]

\* cv2.addWeighted(a, alpha, b, 1 - alpha, 0) on one 8-bit pixel.
AddWeighted(a, alpha, b) ==
    LET v == RRound(RAdd(RMul(a, alpha), RMul(b, RSub(Int2R(1), alpha))))
    IN  Int2R(IF v < 0 THEN 0 ELSE IF v > 255 THEN 255 ELSE v)

\* np.random.randint(lo, hi) for hi > lo, from the uniform draw f in [0, 1).
RandInt(lo, hi, f) == lo + RFloor(RMul(f, Int2R(hi - lo)))

\* __init__ of LandmarksRandomPatches (alpha is not a parameter there and is
\* handed as 0) and of LandmarksRandomPatchesWithAlpha.
RandomPatchesInit(kind, patch_ratio, prob, trans_ratio, alpha) ==
    IF /\ RGt(patch_ratio, <<1, 10>>) /\ RGt(Int2R(1), patch_ratio)
       /\ RGt(trans_ratio, Int2R(0)) /\ RGt(Int2R(1), trans_ratio)
       /\ ~RGt(Int2R(0), alpha) /\ ~RGt(alpha, Int2R(1))
    THEN Constructed(TransformInit(kind, prob, FALSE)
                       @@ [patch_ratio |-> patch_ratio, trans_ratio |-> trans_ratio,
                           alpha |-> alpha])
    ELSE Rejected("AssertionError")

\* LandmarksRandomBackgroundWithAlpha.__init__
RandomBackgroundInit(alpha, prob) ==
    IF RGt(alpha, <<1, 10>>) /\ ~RGt(alpha, Half)
    THEN Constructed(TransformInit("LandmarksRandomBackgroundWithAlpha", prob, FALSE)
                       @@ [alpha |-> alpha])
    ELSE Rejected("AssertionError")

\* The patch size drawn at the head of the two patch transforms: d.q is the
\* square root of the drawn area ratio, d.fw the draw behind randint.
PatchShape(t, img, d) ==
    LET patch_h == RTrunc(RMul(Int2R(img.h), d.q))
        patch_w == RTrunc(RMul(Int2R(img.w), d.q))
        delta == patch_h * patch_w
        tr == RTrunc(RMul(Int2R(patch_w), t.trans_ratio))
        down_w == IF tr > 2 THEN tr ELSE 2
        tu == RTrunc(RMul(Int2R(patch_w), RAdd(Int2R(1), t.trans_ratio)))
        up_w == IF tu < img.w - 2 THEN tu ELSE img.w - 2
        lo == IF down_w < up_w THEN down_w ELSE up_w
        hi == IF down_w < up_w THEN up_w ELSE down_w
        new_patch_w == RandInt(lo, hi, d.fw)
    IN  IF lo >= hi THEN [error |-> "ValueError", h |-> 0, w |-> 0]
        ELSE IF new_patch_w = 0 THEN [error |-> "ZeroDivisionError", h |-> 0, w |-> 0]
        ELSE [error |-> "None", h |-> RTrunc(Rat(delta, new_patch_w)), w |-> new_patch_w]

\* _random_select_patch: none, or a patch of patch_h x patch_w pixels cut or
\* resized from the asset d.asset.
RandomSelectPatch(patch_h, patch_w, d) ==
    IF ~d.asset.loaded THEN [error |-> "None", patch |-> NoAsset]
    ELSE IF (d.asset.h <= patch_h \/ d.asset.w <= patch_w)
            /\ (patch_h <= 0 \/ patch_w <= 0)
         THEN [error |-> "cv2.error", patch |-> NoAsset]
         ELSE [error |-> "None",
               patch |-> [d.asset EXCEPT !.h = IF patch_h > 0 THEN patch_h ELSE 0,
                                         !.w = IF patch_w > 0 THEN patch_w ELSE 0]]

\* _random_patch_img and _random_patch_img_with_alpha: the patch is written
\* into img at a drawn corner; with blend, each pixel is fused with the pixel
\* under it by alpha.
RandomPatchImg(img, patch, d, blend, alpha) ==
    LET patch_w == IF patch.w < img.w THEN patch.w ELSE img.w
        patch_h == IF patch.h < img.h THEN patch.h ELSE img.h
        x0 == RandInt(0, img.w - patch_w + 1, d.fx)
        y0 == RandInt(0, img.h - patch_h + 1, d.fy)
        x1 == x0 + patch_w
        y1 == y0 + patch_h
        Pixel(r, j) == IF r > y0 /\ r <= y1 /\ j > x0 /\ j <= x1
                       THEN (IF blend THEN AddWeighted(patch.v, alpha, img.px[r][j])
                             ELSE patch.v)
                       ELSE img.px[r][j]
    IN  IF patch.w > img.w \/ patch.h > img.h
        THEN [error |-> IF blend THEN "cv2.error" ELSE "ValueError", img |-> img]
        ELSE [error |-> "None",
              img |-> [img EXCEPT !.px = [r \in 1..img.h |->
                                          [j \in 1..img.w |-> Pixel(r, j)]]]]

\* The tail of __call__ of the two patch transforms, with the patch selected
\* (sel) and the overlay (over).  The branch for a patch that is None sets the
\* flag and falls through to the overlay, which reads patch.shape:
\* AttributeError.
RandomPatchesOverlay(t, img, pts, sel, over) ==
    IF sel.error # "None" THEN Raised(t, img, pts, sel.error)
    ELSE IF ~sel.patch.loaded
         THEN Raised([t EXCEPT !.flag = TRUE], img, pts, "AttributeError")
    ELSE IF over.error # "None" THEN Raised(t, img, pts, over.error)
    ELSE Returned([t EXCEPT !.flag = TRUE], AsUint8(over.img), AsFloat32(pts), TRUE)

\* The selection of the patch for the shape drawn, and its overlay.
RandomPatchesSelect(t, img, pts, d, sel) ==
    RandomPatchesOverlay(t, img, pts, sel,
        RandomPatchImg(img, sel.patch, d,
                       t.kind = "LandmarksRandomPatchesWithAlpha", d.alpha))

\* The patch transforms once the patch shape is drawn.
RandomPatchesShaped(t, img, pts, d, shape) ==
    IF shape.error # "None" THEN Raised(t, img, pts, shape.error)
    ELSE RandomPatchesSelect(t, img, pts, d, RandomSelectPatch(shape.h, shape.w, d))

\* __call__ of LandmarksRandomPatches and LandmarksRandomPatchesWithAlpha.
RandomPatchesCall(t, img, pts, d) ==
    IF GateFails(t, d.u) THEN GateSkip(t, img, pts)
    ELSE RandomPatchesShaped(t, img, pts, d, PatchShape(t, img, d))

\* LandmarksRandomBackgroundWithAlpha.__call__: the background is the asset
\* resized to the image; without an asset the input is returned.
RandomBackgroundCall(t, img, pts, d) ==
    IF GateFails(t, d.u) THEN GateSkip(t, img, pts)
    ELSE
      LET t1 == [t EXCEPT !.flag = TRUE]
          new_img == [img EXCEPT !.px = [r \in 1..img.h |->
                        [j \in 1..img.w |->
                           AddWeighted(d.asset.v, d.alpha, img.px[r][j])]]]
      IN  IF ~d.asset.loaded THEN Returned(t1, AsUint8(img), AsFloat32(pts), TRUE)
          ELSE Returned(t1, AsUint8(new_img), AsFloat32(pts), TRUE)

\* np.min and np.max of the two columns of the landmarks:
\* <<x_min, y_min, x_max, y_max>>.
NpBounds(xy) ==
    LET xs == { xy[i][1] : i \in 1..Len(xy) }
        ys == { xy[i][2] : i \in 1..Len(xy) }
        Least(S) == CHOOSE v \in S : \A o \in S : ~RGt(v, o)
        Most(S) == CHOOSE v \in S : \A o \in S : ~RGt(o, v)
    IN  <<Least(xs), Least(ys), Most(xs), Most(ys)>>

IntMin(a, b) == IF a < b THEN a ELSE b
IntMax(a, b) == IF a > b THEN a ELSE b

\* LandmarksRandomCenterCrop.__init__
RandomCenterCropInit(width_range, height_range, prob) ==
    Constructed(TransformInit("LandmarksRandomCenterCrop", prob, FALSE)
                  @@ [width_range |-> width_range, height_range |-> height_range])

\* One side of the crop window: n is the image side, ratio the keep-ratio
\* drawn, split the share of the window before the centre, lo and hi the least
\* and the greatest coordinate of the points on that axis.
CropSide(n, ratio, split, lo, hi) ==
    LET c == n \div 2
        crop == IntMin(RTrunc(RAdd(RMul(ratio, Int2R(n)), Int2R(1))), n)
        before == RMul(Int2R(crop), split)
        after == RSub(Int2R(crop), before)
        a1 == IntMax(0, RTrunc(RAdd(RSub(Int2R(c), before), Int2R(1))))
        a2 == IntMin(n, RTrunc(RAdd(Int2R(c), after)))
    IN  <<IntMax(RTrunc(RMin(Int2R(a1), lo)), 0),
          IntMin(RTrunc(RMax(Int2R(a2), RAdd(hi, Int2R(1)))), n)>>

\* The window [x1, x2) x [y1, y2) LandmarksRandomCenterCrop chooses; b holds
\* the bounds of the points, d.wr and d.hr the keep-ratios, d.lr and d.tr the
\* left and top shares drawn in [0.4, 0.6].
RandomCenterCropWindow(img, b, d) ==
    [x |-> CropSide(img.w, d.wr, d.lr, b[1], b[3]),
     y |-> CropSide(img.h, d.hr, d.tr, b[2], b[4])]

\* The tail of LandmarksRandomCenterCrop.__call__ for the window win: the
\* points are shifted; when one falls outside the window the image and the
\* landmarks handed are returned, otherwise the crop.
RandomCenterCropTo(t, img, pts, win) ==
    LET x1 == win.x[1]
        y1 == win.y[1]
        crop_width == Abs(win.x[2] - x1)
        crop_height == Abs(win.y[2] - y1)
        new_xy == [i \in 1..Len(pts.xy) |->
                     <<RSub(pts.xy[i][1], Int2R(x1)), RSub(pts.xy[i][2], Int2R(y1))>>]
        b == NpBounds(new_xy)
    IN  IF \/ RGt(Int2R(0), b[1]) \/ RGt(b[3], Int2R(crop_width))
           \/ RGt(Int2R(0), b[2]) \/ RGt(b[4], Int2R(crop_height))
        THEN Returned(t, AsUint8(img), pts, FALSE)
        ELSE Returned([t EXCEPT !.flag = TRUE],
                      AsUint8(Crop(img, y1, win.y[2], x1, win.x[2])),
                      AsFloat32([pts EXCEPT !.xy = new_xy]), TRUE)

\* LandmarksRandomCenterCrop.__call__
RandomCenterCropCall(t, img, pts, d) ==
    IF GateFails(t, d.u) THEN GateSkip(t, img, pts)
    ELSE RandomCenterCropTo(t, img, pts,
                            RandomCenterCropWindow(img, NpBounds(pts.xy), d))

\* A range argument of LandmarksRandomHSV as it is stored: None is 0, and an
\* int n is the pair (min(-n, n), max(-n, n)).
HSVRange(a) ==
    CASE a.type = "tuple" -> <<RTrunc(a.v[1]), RTrunc(a.v[2])>>
      [] a.type = "int" /\ RTrunc(a.v[1]) # 0 ->
           <<-Abs(RTrunc(a.v[1])), Abs(RTrunc(a.v[1]))>>
      [] OTHER -> <<0, 0>>

\* LandmarksRandomHSV.__init__
RandomHSVInit(hue, saturation, brightness, prob) ==
    Constructed(TransformInit("LandmarksRandomHSV", prob, FALSE)
                  @@ [hue |-> HSVRange(hue), saturation |-> HSVRange(saturation),
                      brightness |-> HSVRange(brightness)])

\* One value v of channel ch of an image of type dtype, after the shift drawn:
\* the shift is cast to 8 bits and added in the image's own type, the sum is
\* clipped to [0, 255], channel 0 to [0, 179], and cast to 8 bits.
HSVValue(v, shift, ch, dtype) ==
    LET a == shift % 256
        sum == IF dtype = "uint8" THEN Int2R((RTrunc(v) + a) % 256)
               ELSE RAdd(v, Int2R(a))
        clipped == RMin(RMax(sum, Int2R(0)), Int2R(255))
        hue == IF ch = 0 THEN RMin(RMax(clipped, Int2R(0)), Int2R(179)) ELSE clipped
    IN  Int2R(RTrunc(hue) % 256)

\* LandmarksRandomHSV.__call__ on an image of three interleaved channels;
\* d.hue, d.saturation and d.brightness are the draws of random.randint.
RandomHSVCall(t, img, pts, d) ==
    IF GateFails(t, d.u) THEN GateSkip(t, img, pts)
    ELSE
      LET shifts == <<d.hue, d.saturation, d.brightness>>
          new_px == [r \in 1..Len(img.px) |->
                      [j \in 1..Len(img.px[r]) |->
                         HSVValue(img.px[r][j], shifts[((j - 1) % 3) + 1],
                                  (j - 1) % 3, img.dtype)]]
      IN  Returned([t EXCEPT !.flag = TRUE],
                   [img EXCEPT !.px = new_px, !.dtype = "uint8"],
                   AsFloat32(pts), TRUE)

\* A third-party transform handed to an adapter is [lib, cls, p]: its library,
\* its class and the probability it acts with.
\* isinstance(transform, torch.nn.Module)
IsModule(transform) == transform.lib = "torchvision"

\* BindTorchVisionTransform._Supported_Image_Only_Set
SupportedImageOnlySet ==
    { "Normalize", "ColorJitter", "Grayscale", "RandomGrayscale", "RandomErasing",
      "GaussianBlur", "RandomInvert", "RandomPosterize", "RandomSolarize",
      "RandomAdjustSharpness", "RandomAutocontrast", "RandomEqualize" }

\* BindTorchVisionTransform.__init__
BindTorchVisionInit(transform) ==
    IF transform.lib = "torchvision" /\ transform.cls \in SupportedImageOnlySet
    THEN Constructed(TransformInit("BindTorchVisionTransform", Int2R(1), FALSE)
                       @@ [transform_internal |-> transform])
    ELSE Rejected("AssertionError")

\* BindAlbumentationsTransform.__init__
BindAlbumentationsInit(transform) ==
    Constructed(TransformInit("BindAlbumentationsTransform", Int2R(1), FALSE)
                  @@ [transform_internal |-> transform])

\* bind(transform)
Bind(transform) ==
    IF IsModule(transform) THEN BindTorchVisionInit(transform)
    ELSE BindAlbumentationsInit(transform)

\* self.transform_internal(img) for torchvision.transforms.RandomInvert(p):
\* with a draw below p every 8-bit value v becomes 255 - v.
TransformInternal(transform, img, d) ==
    IF transform.cls = "RandomInvert" /\ RGt(transform.p, d.u)
    THEN [img EXCEPT !.px = [r \in 1..Len(img.px) |->
                              [j \in 1..Len(img.px[r]) |->
                                 RSub(Int2R(255), img.px[r][j])]]]
    ELSE img

\* BindTorchVisionTransform.__call__
BindTorchVisionCall(t, img, pts, d) ==
    Returned([t EXCEPT !.flag = TRUE], TransformInternal(t.transform_internal, img, d),
             pts, TRUE)

\* BindAlbumentationsTransform.__call__: the base __call__, NotImplementedError.
BindAlbumentationsCall(t, img, pts) == Raised(t, img, pts, "NotImplementedError")

\* t(img, landmarks): dispatch on the child's class.
TransformCall(t, img, pts, d) ==
    CASE t.kind = "LandmarksNormalize" -> NormalizeCall(t, img, pts)
      [] t.kind = "LandmarksHorizontalFlip" -> HorizontalFlipCall(t, img, pts)
      [] t.kind = "LandmarksRandomHorizontalFlip" -> RandomHorizontalFlipCall(t, img, pts, d)
      [] t.kind = "LandmarksRandomScale" -> RandomScaleCall(t, img, pts, d)
      [] t.kind = "BindAlbumentationsTransform" -> BindAlbumentationsCall(t, img, pts)
      [] t.kind = "BindTorchVisionTransform" -> BindTorchVisionCall(t, img, pts, d)
      [] t.kind = "LandmarksResize" -> ResizeCall(t, img, pts, d)
      [] t.kind = "LandmarksClip" -> ClipCall(t, img, pts, d)
      [] t.kind \in {"LandmarksRandomPatches", "LandmarksRandomPatchesWithAlpha"} ->
           RandomPatchesCall(t, img, pts, d)
      [] t.kind = "LandmarksRandomBackgroundWithAlpha" -> RandomBackgroundCall(t, img, pts, d)
      [] t.kind = "LandmarksRandomCenterCrop" -> RandomCenterCropCall(t, img, pts, d)
      [] t.kind = "LandmarksRandomHSV" -> RandomHSVCall(t, img, pts, d)

\* -------------------------------------------- autodtye_array, autodtye_tensor

\* A buffer handed to a decorated __call__ is [repr, val]: repr is its
\* representation ("ndarray", "Tensor", or "list" for anything else) and val
\* its content.
\* F.to_numpy and F.to_tensor: the same content in the other representation.
ToNumpy(b) == [b EXCEPT !.repr = "ndarray"]
ToTensor(b) == [b EXCEPT !.repr = "Tensor"]

\* The result r of the wrapped call, with the buffers it comes back in.
Wrapped(r, img, pts) == r @@ [img_repr |-> img.repr, pts_repr |-> pts.repr]

\* The tail of a wrapper: r is what the wrapped call returned on the buffers a
\* and l; its image and points are converted back when the arguments were
\* converted (back is the representation to return in), and returned as they
\* are otherwise.
WrapperReturn(r, a, l, back) ==
    CASE back = "Tensor" -> Wrapped(r, ToTensor([a EXCEPT !.val = r.img]),
                                       ToTensor([l EXCEPT !.val = r.pts]))
      [] back = "ndarray" -> Wrapped(r, ToNumpy([a EXCEPT !.val = r.img]),
                                        ToNumpy([l EXCEPT !.val = r.pts]))
      [] OTHER -> Wrapped(r, a, l)

\* The wrapper of autodtye_array
AutodtyeArray(t, img, pts, d) ==
    IF ~({img.repr, pts.repr} \subseteq {"ndarray", "Tensor"})
    THEN Wrapped(Raised(t, img.val, pts.val, "AssertionError"), img, pts)
    ELSE LET convert == img.repr = "Tensor" \/ pts.repr = "Tensor"
             a == IF convert THEN ToNumpy(img) ELSE img
             l == IF convert THEN ToNumpy(pts) ELSE pts
         IN  WrapperReturn(TransformCall(t, a.val, l.val, d), a, l,
                           IF convert THEN "Tensor" ELSE "as handed")

\* The wrapper of autodtye_tensor
AutodtyeTensor(t, img, pts, d) ==
    IF ~({img.repr, pts.repr} \subseteq {"ndarray", "Tensor"})
    THEN Wrapped(Raised(t, img.val, pts.val, "AssertionError"), img, pts)
    ELSE LET convert == img.repr = "ndarray" \/ pts.repr = "ndarray"
             a == IF convert THEN ToTensor(img) ELSE img
             l == IF convert THEN ToTensor(pts) ELSE pts
         IN  WrapperReturn(TransformCall(t, a.val, l.val, d), a, l,
                           IF convert THEN "ndarray" ELSE "as handed")

\* t(img, landmarks) on buffers: __call__ as it is decorated in t's class.
DecoratedCall(t, img, pts, d) ==
    CASE t.kind = "BindTorchVisionTransform" -> AutodtyeTensor(t, img, pts, d)
      [] t.kind = "BindAlbumentationsTransform" ->
           Wrapped(TransformCall(t, img.val, pts.val, d), img, pts)
      [] OTHER -> AutodtyeArray(t, img, pts, d)

\* -------------------------------------------------------- LandmarksCompose

\* The classes that derive from LandmarksTransform, among those of the model.
LandmarksTransformClasses ==
    { "LandmarksTransform", "LandmarksNormalize", "LandmarksHorizontalFlip",
      "LandmarksRandomHorizontalFlip", "LandmarksRandomScale", "LandmarksResize",
      "LandmarksClip", "LandmarksRandomPatches", "LandmarksRandomPatchesWithAlpha",
      "LandmarksRandomBackgroundWithAlpha", "BindTorchVisionTransform",
      "BindAlbumentationsTransform", "LandmarksRandomCenterCrop", "LandmarksRandomHSV" }

\* LandmarksCompose.check
ComposeCheck(ts) == \A i \in 1..Len(ts) : ts[i].kind \in LandmarksTransformClasses

\* __init__ without its assertion.
ComposeInit_NoCheck(ts) ==
    [ok |-> TRUE, transforms |-> ts, flags |-> <<>>, error |-> "None"]

\* LandmarksCompose.__init__: the instance, or the AssertionError of
\* "assert self.check".
ComposeInit(ts) ==
    IF ComposeCheck(ts)
    THEN [ok |-> TRUE, transforms |-> ts, flags |-> <<>>, error |-> "None"]
    ELSE [ok |-> FALSE, transforms |-> <<>>, flags |-> <<>>, error |-> "AssertionError"]

Pair(img, pts) == [img |-> img, pts |-> pts]

Outcome(r) == IF r.raised THEN "raised" ELSE IF r.fired THEN "applied" ELSE "skipped"

\* One entry of the invocation log: child idx was handed inp and ended as
\* outcome (with error the exception it raised), returning out (inp again when
\* it raised).
Step(idx, r, img, pts) ==
    [idx |-> idx, outcome |-> Outcome(r), error |-> r.error, inp |-> Pair(img, pts),
     out |-> IF r.raised THEN Pair(img, pts) ELSE Pair(r.img, r.pts)]

\* __call__ with "break" in place of "continue": the first child that raises
\* ends the loop.
RECURSIVE ComposeCallLoop_AbortOnRaise(_, _, _, _, _)
ComposeCallLoop_AbortOnRaise(ts, i, img, pts, ds) ==
    IF i > Len(ts)
    THEN [ts |-> ts, flags |-> <<>>, img |-> img, pts |-> pts, trace |-> <<>>]
    ELSE
      LET r == TransformCall(ts[i], img, pts, ds[i])
          ts1 == [ts EXCEPT ![i] = r.t]
          rest == IF r.raised
                  THEN [ts |-> ts1, flags |-> <<>>, img |-> img, pts |-> pts,
                        trace |-> <<>>]
                  ELSE ComposeCallLoop_AbortOnRaise(ts1, i + 1, r.img, r.pts, ds)
      IN  [rest EXCEPT
             !.flags = IF r.raised THEN @ ELSE <<r.t.flag>> \o @,
             !.trace = <<Step(i, r, img, pts)>> \o @]

RECURSIVE ComposeCallLoop(_, _, _, _, _)

\* One pass of the loop of __call__: child i ended as r, and the loop goes on.
ComposeCallPass(ts, i, img, pts, ds, r) ==
    LET ts1 == [ts EXCEPT ![i] = r.t]
        rest == IF r.raised
                THEN ComposeCallLoop(ts1, i + 1, img, pts, ds)        \* continue
                ELSE ComposeCallLoop(ts1, i + 1, r.img, r.pts, ds)
    IN  [rest EXCEPT
           !.flags = IF r.raised THEN @ ELSE <<r.t.flag>> \o @,
           !.trace = <<Step(i, r, img, pts)>> \o @]

\* The loop of LandmarksCompose.__call__ from child i on; ds[i] holds the
\* random draws of child i.
ComposeCallLoop(ts, i, img, pts, ds) ==
    IF i > Len(ts)
    THEN [ts |-> ts, flags |-> <<>>, img |-> img, pts |-> pts, trace |-> <<>>]
    ELSE ComposeCallPass(ts, i, img, pts, ds, TransformCall(ts[i], img, pts, ds[i]))

\* apply_transform_to without the test of const_flag: every child is invoked.
RECURSIVE ComposeApplyTransformLoop_Ungated(_, _, _, _, _, _)
ComposeApplyTransformLoop_Ungated(ts, fl, i, img, pts, ds) ==
    IF i > Len(ts) \/ i > Len(fl)
    THEN [ts |-> ts, img |-> img, pts |-> pts, trace |-> <<>>]
    ELSE
      LET r == TransformCall(ts[i], img, pts, ds[i])
          ts1 == [ts EXCEPT ![i] = r.t]
          rest == IF r.raised
                  THEN ComposeApplyTransformLoop_Ungated(ts1, fl, i + 1, img, pts, ds)
                  ELSE ComposeApplyTransformLoop_Ungated(ts1, fl, i + 1, r.img, r.pts, ds)
      IN  [rest EXCEPT !.trace = <<Step(i, r, img, pts)>> \o @]

RECURSIVE ComposeApplyTransformLoop(_, _, _, _, _, _)

\* One pass of the loop of apply_transform_to: child i ended as r.
ComposeApplyTransformPass(ts, fl, i, img, pts, ds, r) ==
    LET ts1 == [ts EXCEPT ![i] = r.t]
        rest == IF r.raised
                THEN ComposeApplyTransformLoop(ts1, fl, i + 1, img, pts, ds)
                ELSE ComposeApplyTransformLoop(ts1, fl, i + 1, r.img, r.pts, ds)
    IN  [rest EXCEPT !.trace = <<Step(i, r, img, pts)>> \o @]

\* The loop of LandmarksCompose.apply_transform_to over zip(transforms, flags).
ComposeApplyTransformLoop(ts, fl, i, img, pts, ds) ==
    IF i > Len(ts) \/ i > Len(fl)
    THEN [ts |-> ts, img |-> img, pts |-> pts, trace |-> <<>>]
    ELSE
      IF ~fl[i]
      THEN ComposeApplyTransformLoop(ts, fl, i + 1, img, pts, ds)
      ELSE ComposeApplyTransformPass(ts, fl, i, img, pts, ds,
                                     TransformCall(ts[i], img, pts, ds[i]))

\* The loop of LandmarksCompose.apply_affine_to over zip(transforms, flags).
RECURSIVE ComposeApplyAffineLoop(_, _, _, _, _, _, _)
ComposeApplyAffineLoop(ts, fl, i, pts, scale, translate, rotate) ==
    IF i > Len(ts) \/ i > Len(fl)
    THEN [pts |-> pts, trace |-> <<>>]
    ELSE
      IF ~fl[i]
      THEN ComposeApplyAffineLoop(ts, fl, i + 1, pts, scale, translate, rotate)
      ELSE
        LET out == TransformApplyAffineTo(ts[i], pts, scale, translate, rotate)
            rest == ComposeApplyAffineLoop(ts, fl, i + 1, out, scale, translate, rotate)
        IN  [rest EXCEPT !.trace = <<[idx |-> i, inp |-> pts, out |-> out]>> \o @]

\* clear_affine that clears flags only and leaves the children alone.
ComposeClearChildren_None(ts) == ts

\* LandmarksCompose.clear_affine: the children after t.clear_affine() on each.
ComposeClearChildren(ts) == [i \in 1..Len(ts) |-> TransformClearAffine(ts[i])]

\* --------------------------------------------------------- inputs and draws

\* The children a pipeline is built from, as constructed.
Children ==
    { TransformInit("LandmarksNormalize", Int2R(1), FALSE),
      TransformInit("LandmarksHorizontalFlip", Int2R(1), FALSE),
      TransformInit("LandmarksRandomHorizontalFlip", Int2R(1), FALSE),
      RandomScaleInit(PyTuple(<<-1, 2>>, Int2R(1)), Half, FALSE).t,
      Bind([lib |-> "albumentations", cls |-> "HorizontalFlip", p |-> Int2R(1)]).t }

\* The pipelines: lists of distinct transforms.  With at most one
\* LandmarksNormalize, every float image cast back to 8 bits lies in the range
\* where the cast is defined.
Pipelines ==
    { ts \in UNION { [1..n -> Children] : n \in 1..MaxChildren } :
        \A i, j \in 1..Len(ts) : ts[i].kind = ts[j].kind => i = j }

Images ==
    { [dtype |-> "uint8", h |-> 2, w |-> 2,
       px |-> << <<Int2R(10), Int2R(200)>>, <<Int2R(30), Int2R(40)>> >>] }

PointSets ==
    { [dtype |-> "float32", xy |-> << <<Int2R(0), Int2R(1)>>, <<Int2R(2), Int2R(1)>> >>],
      [dtype |-> "float64", xy |-> << <<Int2R(1), Int2R(2)>> >>] }

\* u: the gate's draw in [0, 1); sx, sy: the draws in the range self._scale.
\* miss: whether a reprojection loses a point.  q, fw, fx, fy, alpha, asset: the
\* draws of the occlusion transforms and the asset they load.  wr, hr, lr, tr:
\* the ratios LandmarksRandomCenterCrop draws.  hue, saturation, brightness:
\* the shifts LandmarksRandomHSV draws.
NoDraw ==
    [u |-> Int2R(0), sx |-> Int2R(1), sy |-> Int2R(1), miss |-> FALSE,
     q |-> Half, fw |-> Int2R(0), fx |-> Int2R(0), fy |-> Int2R(0),
     alpha |-> Half, asset |-> NoAsset,
     wr |-> Int2R(1), hr |-> Int2R(1), lr |-> Half, tr |-> Half,
     hue |-> 0, saturation |-> 0, brightness |-> 0]

\* What cv2.imread may return for the file picked.
Assets == { NoAsset, [loaded |-> TRUE, h |-> 8, w |-> 8, v |-> Int2R(7)] }

DrawsOf(t) ==
    CASE t.kind = "LandmarksRandomScale" ->
           LET range == IF t.scale.type = "tuple"
                        THEN { t.scale.v[1], t.scale.v[2] } ELSE { Int2R(1) }
           IN  { [NoDraw EXCEPT !.u = <<3, 4>>] }
               \cup { [NoDraw EXCEPT !.u = <<1, 4>>, !.sx = s,
                                     !.sy = IF t.diff THEN s2 ELSE Int2R(1)] :
                        s \in range, s2 \in range }
      [] t.kind = "LandmarksRandomHorizontalFlip" ->
           { [NoDraw EXCEPT !.u = u] : u \in { <<1, 4>>, <<3, 4>> } }
      [] t.kind \in {"LandmarksResize", "LandmarksClip"} ->
           { [NoDraw EXCEPT !.miss = m] : m \in BOOLEAN }
      [] t.kind \in {"LandmarksRandomPatches", "LandmarksRandomPatchesWithAlpha"} ->
           { [NoDraw EXCEPT !.u = <<3, 4>>] }
           \cup { [NoDraw EXCEPT !.u = <<1, 4>>, !.q = q, !.asset = a, !.fx = fx,
                                 !.alpha = t.alpha] :
                    q \in { x \in { <<2, 5>> } : /\ ~RGt(RMul(x, x), t.patch_ratio)
                                                /\ ~RGt(<<1, 20>>, RMul(x, x)) },
                    a \in Assets, fx \in { Int2R(0), Half } }
      [] t.kind = "LandmarksRandomBackgroundWithAlpha" ->
           { [NoDraw EXCEPT !.u = <<3, 4>>] }
           \cup { [NoDraw EXCEPT !.u = <<1, 4>>, !.asset = a, !.alpha = al] :
                    a \in Assets, al \in { <<1, 10>>, t.alpha } }
      [] t.kind = "BindTorchVisionTransform" ->
           { [NoDraw EXCEPT !.u = u] : u \in { <<1, 4>>, <<3, 4>> } }
      [] t.kind = "LandmarksRandomCenterCrop" ->
           { [NoDraw EXCEPT !.u = <<3, 4>>] }
           \cup { [NoDraw EXCEPT !.u = <<1, 4>>, !.wr = wr, !.hr = hr, !.lr = lr,
                                 !.tr = tr] :
                    wr \in { t.width_range[1], t.width_range[2] },
                    hr \in { t.height_range[1], t.height_range[2] },
                    lr \in { <<2, 5>>, <<3, 5>> }, tr \in { <<2, 5>>, <<3, 5>> } }
      [] t.kind = "LandmarksRandomHSV" ->
           { [NoDraw EXCEPT !.u = <<3, 4>>] }
           \cup { [NoDraw EXCEPT !.u = <<1, 4>>, !.hue = hu, !.saturation = sa,
                                 !.brightness = br] :
                    hu \in { t.hue[1], t.hue[2] },
                    sa \in { t.saturation[1], t.saturation[2] },
                    br \in { t.brightness[1], t.brightness[2] } }
      [] OTHER -> { NoDraw }

DrawSeqs(ts) == { ds \in [1..Len(ts) -> UNION { DrawsOf(ts[i]) : i \in 1..Len(ts) }] :
                    \A i \in 1..Len(ts) : ds[i] \in DrawsOf(ts[i]) }

\* ------------------------------------------------------------------ actions

\* LandmarksCompose.__init__ on a list of LandmarksTransform instances.
Init ==
    /\ transforms \in Pipelines
    /\ flags = <<>>
    /\ op = "init"
    /\ arg = <<>>
    /\ ret = <<>>
    /\ trace = <<>>
    /\ applied = <<>>
    /\ cleared = FALSE
    /\ callers = <<>>

\* LandmarksCompose.__call__(img, landmarks)
Call ==
    \E img \in Images, pts \in PointSets, ds \in DrawSeqs(transforms) :
      \E r \in { ComposeCallLoop(transforms, 1, img, pts, ds) } :
          /\ transforms' = r.ts
          /\ flags' = r.flags
          /\ op' = "call"
          /\ arg' = Pair(img, pts)
          /\ ret' = Pair(r.img, r.pts)
          /\ trace' = r.trace
          /\ applied' = r.trace
          /\ cleared' = FALSE
          /\ UNCHANGED callers

\* apply_transform_to that appends the children's flags as __call__ does.
ApplyTransformTo_RewritesFlags ==
    \E img \in Images, pts \in PointSets, ds \in DrawSeqs(transforms) :
      \E r \in { ComposeApplyTransformLoop(transforms, flags, 1, img, pts, ds) } :
          /\ transforms' = r.ts
          /\ flags' = [i \in 1..Len(r.ts) |-> r.ts[i].flag]
          /\ op' = "apply_transform_to"
          /\ arg' = Pair(img, pts)
          /\ ret' = Pair(r.img, r.pts)
          /\ trace' = r.trace
          /\ UNCHANGED <<applied, cleared, callers>>

\* LandmarksCompose.apply_transform_to(other_img, other_landmarks)
ApplyTransformTo ==
    \E img \in Images, pts \in PointSets, ds \in DrawSeqs(transforms) :
      \E r \in { ComposeApplyTransformLoop(transforms, flags, 1, img, pts, ds) } :
          /\ transforms' = r.ts
          /\ op' = "apply_transform_to"
          /\ arg' = Pair(img, pts)
          /\ ret' = Pair(r.img, r.pts)
          /\ trace' = r.trace
          /\ UNCHANGED <<flags, applied, cleared, callers>>

\* LandmarksCompose.apply_affine_to(other_landmarks, scale, translate, rotate)
ApplyAffineTo ==
    \E pts \in PointSets, scale \in BOOLEAN, translate \in BOOLEAN, rotate \in BOOLEAN :
      LET r == ComposeApplyAffineLoop(transforms, flags, 1, pts, scale, translate, rotate)
      IN  /\ op' = "apply_affine_to"
          /\ arg' = [pts |-> pts, scale |-> scale, translate |-> translate,
                     rotate |-> rotate]
          /\ ret' = r.pts
          /\ trace' = r.trace
          /\ UNCHANGED <<transforms, flags, applied, cleared, callers>>

\* LandmarksCompose.clear_affine()
ClearAffine ==
    /\ transforms' = ComposeClearChildren(transforms)
    /\ flags' = <<>>
    /\ op' = "clear_affine"
    /\ arg' = <<>>
    /\ ret' = <<>>
    /\ trace' = <<>>
    /\ applied' = <<>>
    /\ cleared' = TRUE
    /\ UNCHANGED callers

Next == Call \/ ApplyTransformTo \/ ApplyAffineTo \/ ClearAffine

Spec == Init /\ [][Next]_vars

\* ------------------------------------- LandmarksTransform.apply_affine_to alone

\* The affine records a transform may hold when apply_affine_to is called on it.
AffineRecords ==
    { [TransformInit("LandmarksTransform", Int2R(1), FALSE) EXCEPT
         !.rotate = ro, !.scale_x = sx, !.scale_y = sy,
         !.trans_x = tx, !.trans_y = ty, !.flag = TRUE] :
        ro \in { Int2R(0), Int2R(30) },
        sx \in { Half, Int2R(1), Int2R(2) }, sy \in { Int2R(1), Int2R(3) },
        tx \in { Int2R(0), Int2R(1) }, ty \in { Int2R(0), <<-3, 2>> } }

InitAffine ==
    /\ transforms \in { <<t>> : t \in AffineRecords }
    /\ flags = <<>>
    /\ op = "init"
    /\ arg = <<>>
    /\ ret = <<>>
    /\ trace = <<>>
    /\ applied = <<>>
    /\ cleared = FALSE
    /\ callers = <<>>

\* t.apply_affine_to(other_landmarks, scale, translate, rotate) on the transform
TransformAffine ==
    \E pts \in PointSets, scale \in BOOLEAN, translate \in BOOLEAN, rotate \in BOOLEAN :
      /\ op' = "t_apply_affine_to"
      /\ arg' = [pts |-> pts, scale |-> scale, translate |-> translate,
                 rotate |-> rotate]
      /\ ret' = TransformApplyAffineTo(transforms[1], pts, scale, translate, rotate)
      /\ UNCHANGED <<transforms, flags, trace, applied, cleared, callers>>

NextAffine == TransformAffine

SpecAffine == InitAffine /\ [][NextAffine]_vars

\* ------------------------------------------- one pipeline shared by callers

\* Each operation of LandmarksCompose runs as a whole; the callers' operations
\* interleave in any order.
Callers == 1..MaxCallers

\* The pipelines shared: the children whose gate is drawn anew on every call.
SharedPipelines ==
    { ts \in Pipelines :
        \A i \in 1..Len(ts) :
          ts[i].kind \in {"LandmarksRandomHorizontalFlip", "LandmarksRandomScale"} }

NoCaller == 0

InitShared ==
    /\ transforms \in SharedPipelines
    /\ flags = <<>>
    /\ op = "init"
    /\ arg = <<>>
    /\ ret = <<>>
    /\ trace = <<>>
    /\ applied = <<>>
    /\ cleared = FALSE
    /\ callers = [last |-> NoCaller,
                  wrote |-> [c \in Callers |-> <<>>],
                  alone |-> [c \in Callers |-> FALSE]]

\* The record of the callers after an operation of caller c: every other
\* caller has had an operation since its __call__.
Operated(c) == [callers EXCEPT !.alone = [k \in Callers |-> k = c /\ callers.alone[k]]]

\* Caller c runs __call__(img, landmarks).
CallBy(c) ==
    \E img \in Images, pts \in PointSets, ds \in DrawSeqs(transforms) :
      \E r \in { ComposeCallLoop(transforms, 1, img, pts, ds) } :
          /\ transforms' = r.ts
          /\ flags' = r.flags
          /\ op' = "call"
          /\ arg' = [caller |-> c, img |-> img, pts |-> pts]
          /\ ret' = Pair(r.img, r.pts)
          /\ trace' = r.trace
          /\ applied' = r.trace
          /\ cleared' = FALSE
          /\ callers' = [last |-> c,
                         wrote |-> [callers.wrote EXCEPT ![c] = r.flags],
                         alone |-> [k \in Callers |-> k = c]]

\* Caller c runs apply_transform_to(other_img, other_landmarks).
ApplyTransformToBy(c) ==
    \E img \in Images, pts \in PointSets, ds \in DrawSeqs(transforms) :
      \E r \in { ComposeApplyTransformLoop(transforms, flags, 1, img, pts, ds) } :
          /\ transforms' = r.ts
          /\ op' = "apply_transform_to"
          /\ arg' = [caller |-> c, img |-> img, pts |-> pts]
          /\ ret' = Pair(r.img, r.pts)
          /\ trace' = r.trace
          /\ callers' = Operated(c)
          /\ UNCHANGED <<flags, applied, cleared>>

\* Caller c runs apply_affine_to(other_landmarks) with the default steps.
ApplyAffineToBy(c) ==
    \E pts \in PointSets :
      \E r \in { ComposeApplyAffineLoop(transforms, flags, 1, pts, TRUE, TRUE, FALSE) } :
          /\ op' = "apply_affine_to"
          /\ arg' = [caller |-> c, pts |-> pts, scale |-> TRUE, translate |-> TRUE,
                     rotate |-> FALSE]
          /\ ret' = r.pts
          /\ trace' = r.trace
          /\ callers' = Operated(c)
          /\ UNCHANGED <<transforms, flags, applied, cleared>>

NextShared ==
    \E c \in Callers : CallBy(c) \/ ApplyTransformToBy(c) \/ ApplyAffineToBy(c)

SpecShared == InitShared /\ [][NextShared]_vars

\* ------------------------------------------- one transform, built and invoked

\* The most invocations made in a row, each on what the one before returned.
MaxInvocations == 2

\* The third-party transforms handed to bind() and to the adapters.
ThirdParty ==
    { [lib |-> "torchvision", cls |-> "RandomInvert", p |-> Half],
      [lib |-> "torchvision", cls |-> "Resize", p |-> Int2R(1)],
      [lib |-> "albumentations", cls |-> "HorizontalFlip", p |-> Int2R(1)] }

\* The constructor calls made: the class (or bind) and its arguments.
ConstructorCalls ==
    { [cls |-> "LandmarksHorizontalFlip"] }
    \cup { [cls |-> "LandmarksRandomScale", scale |-> sc, prob |-> Int2R(1), diff |-> FALSE] :
             sc \in { PyTuple(<<-1, 2>>, Int2R(1)), PyFloat(Half), PyFloat(<<-1, 2>>),
                      PyInt(1) } }
    \cup { [cls |-> "LandmarksResize", size |-> sz, keep_aspect |-> k] :
             sz \in { PyTuple(Int2R(50), Int2R(50)), PyTuple(Int2R(4), Int2R(2)),
                      PyInt(3), PyFloat(Half) },
             k \in BOOLEAN }
    \cup { [cls |-> "LandmarksClip", width_pad |-> <<1, 5>>, height_pad |-> <<1, 5>>,
            target_size |-> ts] :
             ts \in { PyNone, PyTuple(Int2R(4), Int2R(4)), PyInt(2), PyFloat(Half) } }
    \cup { [cls |-> c, patch_ratio |-> pr, prob |-> Half, trans_ratio |-> Half,
            alpha |-> IF c = "LandmarksRandomPatches" THEN Int2R(0) ELSE <<9, 10>>] :
             c \in { "LandmarksRandomPatches", "LandmarksRandomPatchesWithAlpha" },
             pr \in { <<1, 4>>, <<1, 20>> } }
    \cup { [cls |-> "LandmarksRandomBackgroundWithAlpha", alpha |-> al, prob |-> Half] :
             al \in { <<3, 10>>, <<9, 10>> } }
    \cup { [cls |-> c, transform |-> tr] :
             c \in { "bind", "BindTorchVisionTransform", "BindAlbumentationsTransform" },
             tr \in ThirdParty }

\* The constructor call c, dispatched on its class.
New(c) ==
    CASE c.cls = "LandmarksHorizontalFlip" ->
           Constructed(TransformInit("LandmarksHorizontalFlip", Int2R(1), FALSE))
      [] c.cls = "LandmarksRandomScale" -> RandomScaleInit(c.scale, c.prob, c.diff)
      [] c.cls = "LandmarksResize" -> ResizeInit(c.size, c.keep_aspect)
      [] c.cls = "LandmarksClip" -> ClipInit(c.width_pad, c.height_pad, c.target_size)
      [] c.cls \in {"LandmarksRandomPatches", "LandmarksRandomPatchesWithAlpha"} ->
           RandomPatchesInit(c.cls, c.patch_ratio, c.prob, c.trans_ratio, c.alpha)
      [] c.cls = "LandmarksRandomBackgroundWithAlpha" ->
           RandomBackgroundInit(c.alpha, c.prob)
      [] c.cls = "bind" -> Bind(c.transform)
      [] c.cls = "BindTorchVisionTransform" -> BindTorchVisionInit(c.transform)
      [] c.cls = "BindAlbumentationsTransform" -> BindAlbumentationsInit(c.transform)

\* The lists handed to LandmarksCompose: transforms and other objects.
ComposeArgs ==
    LET elems == { TransformInit("LandmarksHorizontalFlip", Int2R(1), FALSE),
                   TransformInit("LandmarksNormalize", Int2R(1), FALSE),
                   [kind |-> "function"],
                   [kind |-> "torchvision.transforms.RandomInvert"] }
    IN  UNION { [1..n -> elems] : n \in 0..MaxChildren }

\* An image whose pixel in row r, column j is (7r + j) mod 256.
Ramp(h, w) ==
    [dtype |-> "uint8", h |-> h, w |-> w,
     px |-> [r \in 1..h |-> [j \in 1..w |-> Int2R((7 * r + j) % 256)]]]

\* The images and point sets a transform is invoked on.
ImagesFor(t) ==
    Images \cup { Ramp(5, 5) }
    \cup (IF t.kind = "LandmarksHorizontalFlip" THEN { Ramp(100, 100) } ELSE {})
    \cup (IF t.kind = "LandmarksResize" THEN { Ramp(100, 200) } ELSE {})

PointSetsFor(t) ==
    PointSets
    \cup { [dtype |-> "float32", xy |-> << <<Int2R(1), Int2R(1)>>, <<Int2R(4), Int2R(3)>> >>] }
    \cup (IF t.kind = "LandmarksHorizontalFlip"
          THEN { [dtype |-> "float32",
                  xy |-> << <<Int2R(10), Int2R(10)>>, <<Int2R(90), Int2R(10)>>,
                            <<Int2R(50), Int2R(90)>> >>] }
          ELSE {})
    \cup (IF t.kind = "LandmarksResize"
          THEN { [dtype |-> "float32", xy |-> << <<Int2R(100), Int2R(50)>> >>] }
          ELSE {})

\* The representations the image and the points are handed in.
Representations ==
    { <<"ndarray", "ndarray">>, <<"Tensor", "Tensor">>, <<"ndarray", "Tensor">>,
      <<"Tensor", "ndarray">>, <<"list", "ndarray">> }

InitTransform ==
    /\ transforms = <<>>
    /\ flags = <<>>
    /\ op = "none"
    /\ arg = <<>>
    /\ ret = <<>>
    /\ trace = <<>>
    /\ applied = <<>>
    /\ cleared = FALSE
    /\ callers = <<>>

\* A constructor call, or bind(): the instance, or the exception.
Construct ==
    /\ op = "none"
    /\ \E c \in ConstructorCalls :
         LET r == New(c)
         IN  /\ transforms' = IF r.ok THEN <<r.t>> ELSE <<>>
             /\ op' = IF r.ok THEN "t_init" ELSE "t_init_failed"
             /\ arg' = c
             /\ ret' = r.error
    /\ UNCHANGED <<flags, trace, applied, cleared, callers>>

\* LandmarksCompose(list)
NewCompose ==
    /\ op = "none"
    /\ \E ts \in ComposeArgs :
         LET r == ComposeInit(ts)
         IN  /\ transforms' = r.transforms
             /\ flags' = r.flags
             /\ op' = IF r.ok THEN "compose_init" ELSE "compose_init_failed"
             /\ arg' = ts
             /\ ret' = r.error
    /\ UNCHANGED <<trace, applied, cleared, callers>>

\* The array written by the overlay of a patch transform for the shape drawn.
PatchedBuffer(t, img, d, shape) ==
    RandomPatchImg(img, RandomSelectPatch(shape.h, shape.w, d).patch, d,
                   t.kind = "LandmarksRandomPatchesWithAlpha", d.alpha).img

\* The array the caller handed as img, after the invocation that returned r.
\* The overlay of the two patch transforms assigns into the array it is given,
\* which is the caller's own when the wrapper converted nothing; every other
\* transform of the model works on a copy.
InputImageAfter(t, img, pts, d, r) ==
    IF /\ t.kind \in {"LandmarksRandomPatches", "LandmarksRandomPatchesWithAlpha"}
       /\ img.repr = "ndarray" /\ pts.repr = "ndarray"
       /\ ~r.raised /\ r.fired
    THEN PatchedBuffer(t, img.val, d, PatchShape(t, img.val, d))
    ELSE img.val

\* t(img, landmarks) on the buffers img and pts, with the draws d.
InvokeOn(img, pts, d) ==
    \E r \in { DecoratedCall(transforms[1], img, pts, d) } :
      \E step \in { Step(1, r, img.val, pts.val) } :
        /\ transforms' = <<r.t>>
        /\ op' = "t_call"
        /\ arg' = [img |-> img.val, pts |-> pts.val,
                   img_repr |-> img.repr, pts_repr |-> pts.repr, d |-> d,
                   img_after |-> InputImageAfter(transforms[1], img, pts, d, r)]
        /\ ret' = [img |-> step.out.img, pts |-> step.out.pts,
                   img_repr |-> r.img_repr, pts_repr |-> r.pts_repr]
        /\ trace' = Append(trace, step)
        /\ UNCHANGED <<flags, applied, cleared, callers>>

\* The first invocation of the transform built, on fresh buffers.
Invoke ==
    /\ op = "t_init"
    /\ \E rp \in Representations, i \in ImagesFor(transforms[1]),
          l \in PointSetsFor(transforms[1]), d \in DrawsOf(transforms[1]) :
         InvokeOn([repr |-> rp[1], val |-> i], [repr |-> rp[2], val |-> l], d)

\* A further invocation, on the pair the invocation before returned.
InvokeAgain ==
    /\ op = "t_call"
    /\ trace[Len(trace)].outcome # "raised"
    /\ Len(trace) < MaxInvocations
    /\ \E d \in DrawsOf(transforms[1]) :
         InvokeOn([repr |-> ret.img_repr, val |-> ret.img],
                  [repr |-> ret.pts_repr, val |-> ret.pts], d)

NextTransform == Construct \/ NewCompose \/ Invoke \/ InvokeAgain

SpecTransform == InitTransform /\ [][NextTransform]_vars

\* ------------------------------- one instance, invoked again on fresh buffers

\* The instances invoked: a LandmarksRandomCenterCrop with its default ranges,
\* a LandmarksRandomHSV(hue=20, saturation=20, brightness=100), and a
\* LandmarksClip without a target size, with no padding and with its default
\* padding of 0.2.
Instances ==
    { RandomCenterCropInit(<<<<4, 5>>, Int2R(1)>>, <<<<4, 5>>, Int2R(1)>>, Half).t,
      RandomHSVInit(PyInt(20), PyInt(20), PyInt(100), Half).t,
      ClipInit(Int2R(0), Int2R(0), PyNone).t,
      ClipInit(<<1, 5>>, <<1, 5>>, PyNone).t }

\* The images an instance is handed.  Those of LandmarksRandomHSV hold three
\* interleaved channels: a row of w pixels is a row of 3w values.
InstanceImages(t) ==
    IF t.kind = "LandmarksRandomHSV"
    THEN { [dtype |-> dt, h |-> 1, w |-> 2,
            px |-> << <<Int2R(10), Int2R(200), Int2R(250),
                        Int2R(170), Int2R(0), Int2R(100)>> >>] :
             dt \in {"uint8", "float32"} }
    ELSE Images \cup { Ramp(5, 5) }
         \cup { [dtype |-> "float32", h |-> 2, w |-> 2,
                 px |-> << <<Half, <<3, 2>>>>, <<<<-1, 2>>, Int2R(3)>> >>] }

\* The point sets: inside the image, with a point left of it, with a point
\* right of it, and with fractional coordinates.
InstancePoints(t) ==
    PointSets
    \cup { [dtype |-> "float32", xy |-> << <<Int2R(-1), Int2R(1)>>, <<Int2R(2), Int2R(1)>> >>],
           [dtype |-> "float32", xy |-> << <<Int2R(6), Int2R(1)>> >>],
           [dtype |-> "float32", xy |-> << <<Half, <<3, 2>>>> >>] }

InitInstance ==
    /\ transforms \in { <<t>> : t \in Instances }
    /\ flags = <<>>
    /\ op = "t_init"
    /\ arg = <<>>
    /\ ret = <<>>
    /\ trace = <<>>
    /\ applied = <<>>
    /\ cleared = FALSE
    /\ callers = <<>>

\* An invocation of the instance on fresh buffers, the first one or a later
\* one; trace holds this invocation alone.
InvokeAnew ==
    /\ op \in {"t_init", "t_call"}
    /\ \E rp \in { <<"ndarray", "ndarray">>, <<"Tensor", "Tensor">> },
          i \in InstanceImages(transforms[1]), l \in InstancePoints(transforms[1]),
          d \in DrawsOf(transforms[1]) :
         \E r \in { DecoratedCall(transforms[1], [repr |-> rp[1], val |-> i],
                                  [repr |-> rp[2], val |-> l], d) } :
           \E step \in { Step(1, r, i, l) } :
             /\ transforms' = <<r.t>>
             /\ op' = "t_call"
             /\ arg' = [img |-> i, pts |-> l, img_repr |-> rp[1], pts_repr |-> rp[2],
                        d |-> d,
                        img_after |-> InputImageAfter(transforms[1],
                                                      [repr |-> rp[1], val |-> i],
                                                      [repr |-> rp[2], val |-> l], d, r)]
             /\ ret' = [img |-> step.out.img, pts |-> step.out.pts,
                        img_repr |-> r.img_repr, pts_repr |-> r.pts_repr]
             /\ trace' = <<step>>
    /\ UNCHANGED <<flags, applied, cleared, callers>>

NextInstance == InvokeAnew

SpecInstance == InitInstance /\ [][NextInstance]_vars

\* ------------------------------------------------------------------- claims

N == Len(transforms)

\* The children the log tr records with the outcome o, in invocation order.
RECURSIVE IdxWith(_, _)
IdxWith(tr, o) ==
    IF tr = <<>> THEN <<>>
    ELSE (IF Head(tr).outcome = o THEN <<Head(tr).idx>> ELSE <<>>) \o IdxWith(Tail(tr), o)

IdxOf(tr) == [k \in 1..Len(tr) |-> tr[k].idx]

SetOf(seq) == { seq[k] : k \in 1..Len(seq) }

\* C1: after every __call__ on n children, flags has exactly n entries and
\* entry i is false when child i raised and child i's flag otherwise.
C1_FlagsOnePerChild ==
    op = "call" =>
      /\ Len(flags) = N
      /\ Len(trace) = N
      /\ \A i \in 1..N :
           i <= Len(flags) /\ i <= Len(trace) =>
             flags[i] = (IF trace[i].outcome = "raised" THEN FALSE
                         ELSE transforms[i].flag)

\* C2: __call__ invokes every child exactly once, in configured order,
\* whichever children raise, and the pair handed on after a child that raised
\* is the pair that child was handed.
C2_EveryChildInvokedOnce ==
    op = "call" =>
      /\ IdxOf(trace) = [k \in 1..N |-> k]
      /\ \A k \in 1..Len(trace) :
           trace[k].outcome = "raised" =>
             (IF k < Len(trace) THEN trace[k + 1].inp ELSE ret) = trace[k].inp

C2_Witness ==
    /\ op = "call"
    /\ Len(trace) = 2
    /\ trace[1].outcome = "applied"
    /\ trace[1].out # arg
    /\ trace[2].outcome = "raised"

\* C3: apply_transform_to re-invokes child i if and only if the apply before
\* it recorded child i as applied.
C3_ReplayIffApplied ==
    op = "apply_transform_to" =>
      \A i \in 1..N :
        (i \in SetOf(IdxOf(trace))) <=> (i \in SetOf(IdxWith(applied, "applied")))

\* C4: when no child can decline (every probability is 1), the steps
\* apply_transform_to runs on the second pair are, in order, the steps the
\* apply performed on the first pair.
C4_DeterministicReplayFidelity ==
    (op = "apply_transform_to" /\ \A i \in 1..N : transforms[i].prob = Int2R(1)) =>
      IdxOf(trace) = IdxWith(applied, "applied")

\* C5: the steps that fire on the second pair during apply_transform_to are
\* the steps that fired on the first pair during the apply (stated for the
\* applies in which no child raised).
C5_ReplayMirrorsFiring ==
    (op = "apply_transform_to" /\ IdxWith(applied, "raised") = <<>>) =>
      SetOf(IdxWith(trace, "applied")) = SetOf(IdxWith(applied, "applied"))

\* The fold of the children's apply_affine_to, in configured order, over the
\* children in the set fired.
RECURSIVE AffineFold(_, _, _, _, _, _, _)
AffineFold(ts, fired, i, pts, scale, translate, rotate) ==
    IF i > Len(ts) THEN pts
    ELSE AffineFold(ts, fired, i + 1,
                    IF i \in fired
                    THEN TransformApplyAffineTo(ts[i], pts, scale, translate, rotate)
                    ELSE pts,
                    scale, translate, rotate)

\* C6: LandmarksCompose.apply_affine_to returns the fold, in configured
\* order, of the apply_affine_to of exactly the children that fired in the
\* last apply.
C6_AffineOverFiredChildren ==
    op = "apply_affine_to" =>
      ret = AffineFold(transforms, SetOf(IdxWith(applied, "applied")), 1,
                       arg.pts, arg.scale, arg.translate, arg.rotate)

\* C7: LandmarksTransform.apply_affine_to maps (x, y) to ((x - trans_x) *
\* scale_x, (y - trans_y) * scale_y); a switch that is off drops its part, the
\* rotate switch changes nothing, and the points keep their count and order.
C7_AffineMap ==
    op = "t_apply_affine_to" =>
      LET t == transforms[1]
          in_xy == arg.pts.xy
      IN  /\ Len(ret.xy) = Len(in_xy)
          /\ \A i \in 1..Len(in_xy) :
               LET x == in_xy[i][1]
                   y == in_xy[i][2]
               IN  ret.xy[i] =
                     CASE arg.translate /\ arg.scale ->
                            <<RMul(RSub(x, t.trans_x), t.scale_x),
                              RMul(RSub(y, t.trans_y), t.scale_y)>>
                       [] ~arg.translate /\ arg.scale ->
                            <<RMul(x, t.scale_x), RMul(y, t.scale_y)>>
                       [] arg.translate /\ ~arg.scale ->
                            <<RSub(x, t.trans_x), RSub(y, t.trans_y)>>
                       [] OTHER -> <<x, y>>

C7_Witness ==
    /\ op = "t_apply_affine_to"
    /\ arg.translate /\ arg.scale /\ arg.rotate
    /\ transforms[1].trans_x # Int2R(0) /\ transforms[1].trans_y # Int2R(0)
    /\ transforms[1].scale_x = Half /\ transforms[1].scale_y = Int2R(3)
    /\ transforms[1].rotate # Int2R(0)
    /\ Len(arg.pts.xy) = 2

\* C8: after clear_affine() every child's record is the identity with flag
\* false and flags is empty; a replay before the next apply invokes no child
\* and returns its input.
C8_ClearAffine ==
    /\ op = "clear_affine" =>
         flags = <<>> /\ \A i \in 1..N : IsIdentity(transforms[i])
    /\ (cleared /\ op = "apply_transform_to") => (trace = <<>> /\ ret = arg)
    /\ (cleared /\ op = "apply_affine_to") => (trace = <<>> /\ ret = arg.pts)

C8_Witness ==
    /\ cleared
    /\ op = "apply_affine_to"
    /\ arg.scale
    /\ \E i \in 1..N : transforms[i].kind = "LandmarksRandomScale"

\* C9: a transform's record is the identity with flag false after
\* construction, after clear_affine() and after an invocation whose
\* probability gate failed.
C9_IdentityWhenNotFired ==
    /\ op \in {"init", "clear_affine"} => \A i \in 1..N : IsIdentity(transforms[i])
    /\ op \in {"call", "apply_transform_to"} =>
         \A k \in 1..Len(trace) :
           trace[k].outcome = "skipped" => IsIdentity(transforms[trace[k].idx])

C9_Witness ==
    /\ op = "apply_transform_to"
    /\ \E k \in 1..Len(trace) :
         /\ trace[k].outcome = "skipped"
         /\ transforms[trace[k].idx].kind = "LandmarksRandomScale"
         /\ trace[k].idx \in SetOf(IdxWith(applied, "applied"))

\* C10: an invocation whose probability gate failed returns the image and the
\* points it was handed, value for value.
C10_GateSkipReturnsInput ==
    op \in {"call", "apply_transform_to"} =>
      \A k \in 1..Len(trace) :
        trace[k].outcome = "skipped" =>
          /\ trace[k].out.img.px = trace[k].inp.img.px
          /\ trace[k].out.img.h = trace[k].inp.img.h
          /\ trace[k].out.img.w = trace[k].inp.img.w
          /\ trace[k].out.pts.xy = trace[k].inp.pts.xy

\* ------------------------------------------ claims about one transform alone

\* The invocation that ran last, and whether it was handed arrays or tensors.
Last == trace[Len(trace)]
Invoked(kinds) ==
    /\ op = "t_call"
    /\ transforms[1].kind \in kinds
    /\ {arg.img_repr, arg.pts_repr} \subseteq {"ndarray", "Tensor"}

GeometricClasses ==
    { "LandmarksResize", "LandmarksRandomScale", "LandmarksHorizontalFlip",
      "LandmarksClip" }

\* The range of a LandmarksRandomScale is a pair, as its signature asks.
WellConfigured(t) == t.kind = "LandmarksRandomScale" => t.scale.type = "tuple"

\* C11: an invocation of a geometric transform (built from valid arguments)
\* either returns as many points as it was handed, or raises the
\* landmark-count-mismatch error.
C11_CountKeptOrMismatchRaised ==
    (Invoked(GeometricClasses) /\ WellConfigured(transforms[1])) =>
      IF Last.outcome = "raised"
      THEN Last.error = "LandmarkMissError"
      ELSE Len(ret.pts.xy) = Len(arg.pts.xy)

OcclusionClasses ==
    { "LandmarksRandomPatches", "LandmarksRandomPatchesWithAlpha",
      "LandmarksRandomBackgroundWithAlpha" }

\* The invocation that ran last reached its asset lookup, which returned none.
AssetLookupReturnedNone ==
    /\ ~GateFails(transforms[1], arg.d.u)
    /\ \/ transforms[1].kind = "LandmarksRandomBackgroundWithAlpha"
       \/ PatchShape(transforms[1], arg.img, arg.d).error = "None"
    /\ ~arg.d.asset.loaded

\* C12: when the asset lookup returns none, an occlusion transform returns
\* the image and the points it was handed, unchanged, and raises nothing.
C12_NoAssetIsNoOp ==
    (Invoked(OcclusionClasses) /\ AssetLookupReturnedNone) =>
      /\ Last.outcome # "raised"
      /\ ret.img = arg.img
      /\ ret.pts.xy = arg.pts.xy

\* The arguments of the constructor call c have the types its signature names.
ValidArguments(c) ==
    c.cls = "LandmarksRandomScale" => c.scale.type \in {"tuple", "float"}

\* C13: a constructor accepts only valid arguments, and no invocation of a
\* transform that was constructed fails on its configuration (the TypeError of
\* unpacking a range that is not a pair).
C13_ConfigurationRejectedAtConstruction ==
    /\ op = "t_init" => ValidArguments(arg)
    /\ op = "t_call" => Last.error # "TypeError"

\* C14: constructing a LandmarksCompose fails exactly when an element of the
\* list is not a LandmarksTransform; when it succeeds the flags are empty and
\* every child is a LandmarksTransform.
C14_ComposeRejectsNonTransforms ==
    op \in {"compose_init", "compose_init_failed"} =>
      /\ op = "compose_init_failed" <=>
           \E i \in 1..Len(arg) : arg[i].kind \notin LandmarksTransformClasses
      /\ op = "compose_init" =>
           /\ flags = <<>>
           /\ transforms = arg
           /\ \A i \in 1..Len(transforms) :
                transforms[i].kind \in LandmarksTransformClasses

C14_Witness ==
    /\ op = "compose_init_failed"
    /\ Len(arg) = 2
    /\ arg[1].kind = "LandmarksHorizontalFlip"
    /\ arg[2].kind = "function"

AdapterClasses == { "BindTorchVisionTransform", "BindAlbumentationsTransform" }

\* C15: an adapter that is invoked returns the points it was handed,
\* unchanged, and ends with flag = true.
C15_AdapterKeepsPointsAndFlags ==
    Invoked(AdapterClasses) =>
      /\ Last.outcome # "raised"
      /\ ret.pts = arg.pts
      /\ transforms[1].flag = TRUE

\* C16: an invocation with one array and one tensor is rejected with a type
\* error; with two arrays or two tensors, what is returned comes back in the
\* representation of the inputs.
C16_MixedRepresentationsRejected ==
    Invoked(LandmarksTransformClasses) =>
      /\ arg.img_repr # arg.pts_repr =>
           Last.outcome = "raised" /\ Last.error = "TypeError"
      /\ (arg.img_repr = arg.pts_repr /\ Last.outcome # "raised") =>
           ret.img_repr = arg.img_repr /\ ret.pts_repr = arg.pts_repr

C18_FlipMirrorsAboutHalfWidth ==
    (Invoked({"LandmarksHorizontalFlip"}) /\ Last.outcome = "applied") =>
      /\ Len(ret.pts.xy) = Len(arg.pts.xy)
      /\ \A i \in 1..Len(arg.pts.xy) :
           /\ ret.pts.xy[i][1] =
                RAdd(arg.pts.xy[i][1],
                     RMul(Int2R(2), RSub(Rat(arg.img.w, 2), arg.pts.xy[i][1])))
           /\ ret.pts.xy[i][2] = arg.pts.xy[i][2]
      /\ ret.img.h = arg.img.h /\ ret.img.w = arg.img.w
      /\ \A r \in 1..arg.img.h : \A j \in 1..arg.img.w :
           ret.img.px[r][j] = arg.img.px[r][arg.img.w + 1 - j]
      /\ (arg.img.w = 100 /\ arg.pts.xy = << <<Int2R(10), Int2R(10)>>,
                                             <<Int2R(90), Int2R(10)>>,
                                             <<Int2R(50), Int2R(90)>> >>) =>
           ret.pts.xy = << <<Int2R(90), Int2R(10)>>, <<Int2R(10), Int2R(10)>>,
                           <<Int2R(50), Int2R(90)>> >>

C18_Witness ==
    /\ Invoked({"LandmarksHorizontalFlip"})
    /\ Last.outcome = "applied"
    /\ arg.img.w = 100 /\ arg.img.h = 100
    /\ arg.pts.xy = << <<Int2R(10), Int2R(10)>>, <<Int2R(90), Int2R(10)>>,
                       <<Int2R(50), Int2R(90)>> >>
    /\ ret.pts.xy = << <<Int2R(90), Int2R(10)>>, <<Int2R(10), Int2R(10)>>,
                       <<Int2R(50), Int2R(90)>> >>

\* C19: LandmarksResize with size (W, H) and keep_aspect = false, on an image
\* of h rows and w columns, records scale_x = W/w and scale_y = H/h, keeps the
\* translate at 0, sets flag, returns an image of H rows and W columns and the
\* points rebuilt from the enclosing box scaled by (W/w, H/h); size (50, 50)
\* on 100 rows and 200 columns takes the point (100,50) to (25,25) with
\* scale_x = 1/4 and scale_y = 1/2.
C19_ResizeRecordsScale ==
    (Invoked({"LandmarksResize"}) /\ ~transforms[1].keep_aspect
       /\ Last.outcome = "applied") =>
      LET t == transforms[1]
          sx == Rat(t.size[1], arg.img.w)
          sy == Rat(t.size[2], arg.img.h)
          box == ProjectToBboxes(arg.pts.xy)
      IN  /\ t.scale_x = sx /\ t.scale_y = sy
          /\ t.trans_x = Int2R(0) /\ t.trans_y = Int2R(0)
          /\ t.flag = TRUE
          /\ ret.img.w = t.size[1] /\ ret.img.h = t.size[2]
          /\ ret.pts.xy =
               ReprojectToLandmarks(<<RMul(box[1], sx), RMul(box[2], sy),
                                      RMul(box[3], sx), RMul(box[4], sy)>>,
                                    t.size[1], t.size[2], Len(arg.pts.xy), FALSE)
          /\ (t.size = <<50, 50>> /\ arg.img.h = 100 /\ arg.img.w = 200
                /\ arg.pts.xy = << <<Int2R(100), Int2R(50)>> >>) =>
               /\ ret.pts.xy = << <<Int2R(25), Int2R(25)>> >>
               /\ t.scale_x = <<1, 4>> /\ t.scale_y = <<1, 2>>

C19_Witness ==
    /\ Invoked({"LandmarksResize"})
    /\ ~transforms[1].keep_aspect
    /\ Last.outcome = "applied"
    /\ transforms[1].size = <<50, 50>>
    /\ arg.img.h = 100 /\ arg.img.w = 200
    /\ arg.pts.xy = << <<Int2R(100), Int2R(50)>> >>
    /\ ret.pts.xy = << <<Int2R(25), Int2R(25)>> >>
    /\ transforms[1].scale_x = <<1, 4>>

\* C20: an invocation of a LandmarksClip built with a target size (when the
\* inner reprojection loses no point) returns the image resized to the target
\* size, and ends with Clip's scale_x and scale_y equal to the inner
\* LandmarksResize's and with flag = true.
C20_ClipDelegatesToResize ==
    (Invoked({"LandmarksClip"}) /\ transforms[1].has_resize_op /\ ~arg.d.miss) =>
      LET t == transforms[1]
      IN  /\ Last.outcome = "applied"
          /\ ret.img.w = t.resize_op.size[1] /\ ret.img.h = t.resize_op.size[2]
          /\ t.scale_x = t.resize_op.scale_x /\ t.scale_y = t.resize_op.scale_y
          /\ t.resize_op.flag = TRUE
          /\ t.flag = TRUE

\* -------------------------------------------- claims about a shared pipeline

\* The children a replay gated by the flag sequence fl invokes, in order.
RECURSIVE Gated(_, _)
Gated(fl, i) ==
    IF i > Len(fl) \/ i > N THEN <<>>
    ELSE (IF fl[i] THEN <<i>> ELSE <<>>) \o Gated(fl, i + 1)

Replayed == op \in {"apply_transform_to", "apply_affine_to"}

\* C21: a replay by caller c invokes the children that the flags written by
\* c's own latest __call__ enable, when no other caller has operated since
\* that __call__; when another caller ran __call__ last, it invokes the
\* children that caller's flags enable.
C21_ReplayReadsLatestApply ==
    Replayed =>
      /\ callers.alone[arg.caller] =>
           /\ flags = callers.wrote[arg.caller]
           /\ IdxOf(trace) = Gated(callers.wrote[arg.caller], 1)
      /\ callers.last \notin {NoCaller, arg.caller} =>
           /\ flags = callers.wrote[callers.last]
           /\ IdxOf(trace) = Gated(callers.wrote[callers.last], 1)

C21_Witness ==
    /\ Replayed
    /\ callers.alone[arg.caller]
    /\ \E k \in Callers :
         /\ k # arg.caller
         /\ callers.wrote[k] # <<>>
         /\ Gated(callers.wrote[k], 1) # Gated(callers.wrote[arg.caller], 1)
    /\ trace # <<>>

\* ------------------------------------ further claims about one transform alone

\* C22: after an invocation the array the caller handed as the image holds the
\* pixels it held before.
C22_InputImageNotModified ==
    op = "t_call" => arg.img_after = arg.img

\* C23: after an invocation that returns, the instance's flag is true when
\* the transform was performed and false when the input was returned as a
\* no-op, whatever the invocations before it left.
C23_FlagReflectsLastInvocation ==
    (op = "t_call" /\ Last.outcome # "raised") =>
      transforms[1].flag = (Last.outcome = "applied")

\* The window of the LandmarksRandomCenterCrop invocation that ran last.
LastWindow == RandomCenterCropWindow(arg.img, NpBounds(arg.pts.xy), arg.d)

\* C24: an invocation of LandmarksRandomCenterCrop that passes its gate chooses
\* a window with 0 <= x1 <= x2 <= width and 0 <= y1 <= y2 <= height; when it
\* applies, output point i is input point i minus (x1, y1) and lies in
\* [0, x2 - x1] x [0, y2 - y1]; when it rejects, the image and the points
\* handed are returned value for value; the affine record stays the identity.
C24_CenterCropWindow ==
    (Invoked({"LandmarksRandomCenterCrop"}) /\ ~GateFails(transforms[1], arg.d.u)) =>
      LET x1 == LastWindow.x[1]
          x2 == LastWindow.x[2]
          y1 == LastWindow.y[1]
          y2 == LastWindow.y[2]
          t == transforms[1]
      IN  /\ 0 <= x1 /\ x1 <= x2 /\ x2 <= arg.img.w
          /\ 0 <= y1 /\ y1 <= y2 /\ y2 <= arg.img.h
          /\ Last.outcome = "applied" =>
               /\ Len(ret.pts.xy) = Len(arg.pts.xy)
               /\ \A i \in 1..Len(arg.pts.xy) :
                    /\ ret.pts.xy[i] = <<RSub(arg.pts.xy[i][1], Int2R(x1)),
                                         RSub(arg.pts.xy[i][2], Int2R(y1))>>
                    /\ ~RGt(Int2R(0), ret.pts.xy[i][1])
                    /\ ~RGt(ret.pts.xy[i][1], Int2R(x2 - x1))
                    /\ ~RGt(Int2R(0), ret.pts.xy[i][2])
                    /\ ~RGt(ret.pts.xy[i][2], Int2R(y2 - y1))
          /\ Last.outcome # "applied" =>
               /\ ret.img.px = arg.img.px
               /\ ret.img.h = arg.img.h /\ ret.img.w = arg.img.w
               /\ ret.pts.xy = arg.pts.xy
          /\ t.rotate = Int2R(0)
          /\ t.scale_x = Int2R(1) /\ t.scale_y = Int2R(1)
          /\ t.trans_x = Int2R(0) /\ t.trans_y = Int2R(0)

\* The window of the LandmarksClip invocation that ran last.
LastClip ==
    ClipCrop(transforms[1], arg.img, arg.pts, ProjectToBboxes(arg.pts.xy))

\* C25: an invocation of LandmarksClip returns point i as input point i minus
\* (left, top), and every returned point lies in the window cut:
\* 0 <= x <= right - left and 0 <= y <= bottom - top.
C25_ClipWindowHoldsPoints ==
    (Invoked({"LandmarksClip"}) /\ Last.outcome = "applied") =>
      /\ Len(ret.pts.xy) = Len(arg.pts.xy)
      /\ \A i \in 1..Len(arg.pts.xy) :
           /\ ret.pts.xy[i] = <<RSub(arg.pts.xy[i][1], Int2R(LastClip.left)),
                                RSub(arg.pts.xy[i][2], Int2R(LastClip.top))>>
           /\ ~RGt(Int2R(0), ret.pts.xy[i][1])
           /\ ~RGt(ret.pts.xy[i][1], Int2R(LastClip.right - LastClip.left))
           /\ ~RGt(Int2R(0), ret.pts.xy[i][2])
           /\ ~RGt(ret.pts.xy[i][2], Int2R(LastClip.bottom - LastClip.top))

FlipClasses == { "LandmarksHorizontalFlip", "LandmarksRandomHorizontalFlip" }

\* C26: a flip that is performed on an image of width w moves the pixel of
\* column c to column w-1-c, and a landmark on the integer column c, for c in
\* 0..w-1, to column w-1-c as well.
C26_FlipMovesLandmarkWithPixel ==
    (Invoked(FlipClasses) /\ Last.outcome = "applied") =>
      LET w == arg.img.w
      IN  /\ ret.img.w = w /\ ret.img.h = arg.img.h
          /\ \A r \in 1..arg.img.h : \A c \in 0..(w - 1) :
               ret.img.px[r][(w - 1 - c) + 1] = AsUint8(arg.img).px[r][c + 1]
          /\ \A i \in 1..Len(arg.pts.xy) : \A c \in 0..(w - 1) :
               arg.pts.xy[i][1] = Int2R(c) =>
                 ret.pts.xy[i][1] = Int2R(w - 1 - c)

\* min(max(n, lo), hi)
Clamp(n, lo, hi) == IF n < lo THEN lo ELSE IF n > hi THEN hi ELSE n

\* C27: a LandmarksRandomHSV that is performed on an 8-bit image returns, for
\* every value v and the shift d drawn for its channel, min(max(v + d, 0), 179)
\* in channel 0 and min(max(v + d, 0), 255) in channels 1 and 2, and returns
\* the points with the values handed.
C27_HSVClampsNotWraps ==
    (Invoked({"LandmarksRandomHSV"}) /\ Last.outcome = "applied"
       /\ arg.img.dtype = "uint8") =>
      LET shifts == <<arg.d.hue, arg.d.saturation, arg.d.brightness>>
      IN  /\ ret.img.h = arg.img.h /\ ret.img.w = arg.img.w
          /\ \A r \in 1..Len(arg.img.px) : \A j \in 1..Len(arg.img.px[r]) :
               LET ch == (j - 1) % 3
                   v == RTrunc(arg.img.px[r][j])
               IN  ret.img.px[r][j] =
                     Int2R(Clamp(v + shifts[ch + 1], 0, IF ch = 0 THEN 179 ELSE 255))
          /\ ret.pts.xy = arg.pts.xy

\* The transforms that raise after their work is done: the landmark-count
\* error of the resizing ones, the failed asset load of the patch ones.
RaisingClasses ==
    { "LandmarksResize", "LandmarksRandomScale", "LandmarksRandomPatches",
      "LandmarksRandomPatchesWithAlpha" }

\* C28: an invocation of one of these transforms that raises leaves the
\* instance's scale_x, scale_y and flag as they were before the invocation.
C28_RaiseLeavesStateAsBefore ==
    [][ (/\ op' = "t_call"
         /\ transforms'[1].kind \in RaisingClasses
         /\ trace'[Len(trace')].outcome = "raised")
        => /\ transforms'[1].scale_x = transforms[1].scale_x
           /\ transforms'[1].scale_y = transforms[1].scale_y
           /\ transforms'[1].flag = transforms[1].flag ]_vars

\* ------------------------------------------- further claims about a pipeline

\* C29: apply_transform_to and apply_affine_to leave the pipeline's flags as
\* they were and invoke the children those flags enable; a step that changes
\* the flags is a __call__ or a clear_affine.
C29_ReplaysLeaveFlags ==
    [][ /\ op' \in {"apply_transform_to", "apply_affine_to"} =>
             /\ flags' = flags
             /\ IdxOf(trace') = Gated(flags, 1)
        /\ flags' # flags => op' \in {"call", "clear_affine"} ]_vars

C29_Witness ==
    /\ op = "apply_affine_to"
    /\ applied # <<>>
    /\ \E i \in 1..Len(flags) : flags[i]
    /\ trace # <<>>
    /\ \E i \in 1..Len(flags) : transforms[i].flag # flags[i]

\* The affine record and the flag of a transform.
AffineRecord(t) ==
    <<t.rotate, t.scale_x, t.scale_y, t.trans_x, t.trans_y, t.flag>>

\* C30: an apply_transform_to that follows a __call__ leaves every child's
\* affine record and flag as the __call__ left them, so apply_affine_to (with
\* its default arguments) returns for every point set what it would have
\* returned without the replay.
C30_ReplayKeepsAffineRecords ==
    [][ (op' = "apply_transform_to" /\ applied # <<>>) =>
          /\ \A i \in 1..N : AffineRecord(transforms'[i]) = AffineRecord(transforms[i])
          /\ \A pts \in PointSets :
               ComposeApplyAffineLoop(transforms', flags', 1, pts, TRUE, TRUE, FALSE).pts
                 = ComposeApplyAffineLoop(transforms, flags, 1, pts, TRUE, TRUE, FALSE).pts
      ]_vars

====
